---- MODULE Spec2Model ----
(***************************************************************************)
(* Cloud Exchange plugins: the HTTP helpers of the Forescout and VISO      *)
(* TRUST plugins (api_helper, handle_error, parse_response,                *)
(* get_auth_header) and the pagination, retraction and checkpoint logic of *)
(* the MISP plugin (retract_indicators, get_modified_indicators, _pull,    *)
(* push, _create_tags, _retract_attributes).                               *)
(*                                                                         *)
(* Each part has its own specification over its own variables:             *)
(*   SpecHelper       one top-level api_helper call of either helper       *)
(*   SpecHandleError  handle_error applied to one response                 *)
(*   SpecMisp         a sequence of operations on one MISPPlugin instance   *)
(*   SpecShare        the same operations with push, on a shared event     *)
(*   SpecPush         one call of push, given what each request comes to   *)
(*   SpecPullPages    the loop of _pull over the pages of one listing      *)
(*   SpecCreateTags   _create_tags applied to the tags of two attributes   *)
(*   SpecRetractAttributes  _retract_attributes applied to one dict        *)
(***************************************************************************)
EXTENDS Integers, Sequences, FiniteSets, TLC

(***************************************************************************)
(* Values of utils/constants.py, which the helpers import.  The model is   *)
(* parametric in them.                                                     *)
(***************************************************************************)
MAX_API_CALLS == 3
DEFAULT_WAIT_TIME == 1

\* Frames the interpreter allows on the call stack before a call raises
\* RecursionError (sys.getrecursionlimit() in CPython).
RecursionLimit == 5

VARIABLES
    helper,      \* which helper class runs: "forescout" or "viso"
    call,        \* the arguments of the top-level api_helper call
    stack,       \* call stack: api_helper / get_auth_header activations
    ret,         \* value returned or exception raised by the frame just left
    hist,        \* what the call has sent, received and slept so far
    log,         \* self.logger calls so far, for each configured password
    he,          \* handle_error applied on its own: input and result
    app,         \* a MISP plugin function applied on its own: input and result
    log_prefix,     \* MISPPlugin.log_prefix, as a sequence of words
    configuration,  \* MISPPlugin.configuration
    retraction_batch,  \* MISPPlugin.retraction_batch
    sub_checkpoint, \* the checkpoint the host keeps between pulls
    misp_attrs,     \* the attributes the MISP server holds, in search order
    gen,            \* the running generator: _pull, get_modified_indicators
                    \* or retract_indicators
    calls,          \* plugin operations started so far
    loop,           \* the current pagination loop: bodies sent, page lengths
    runs,           \* get_modified_indicators batches completed since another
                    \* operation last ran: input and result
    cycle           \* pages asked and yielded since the last pull from page 1

varsHelper == <<helper, call, stack, ret, hist, log>>
varsHE == <<he, app>>
varsMisp == <<log_prefix, configuration, retraction_batch, sub_checkpoint, misp_attrs,
              gen, calls, loop, runs, cycle>>
vars == <<helper, call, stack, ret, hist, log, he, app,
          log_prefix, configuration, retraction_batch, sub_checkpoint, misp_attrs,
          gen, calls, loop, runs, cycle>>

(***************************************************************************)
(* Exceptions and values                                                   *)
(***************************************************************************)
ForescoutPluginException == "ForescoutPluginException"
VisoTrustException == "VisoTrustException"

\* What requests.request can raise.  ProxyError is a ConnectionError; both
\* and HTTPError are RequestException; "Exception" is anything else.
RequestExceptions == {"ProxyError", "ConnectionError", "HTTPError", "Exception"}

\* What response.json() can do.
ParseOutcomes == {"json", "JSONDecodeError", "Exception"}

\* Status codes the server answers within the api_helper model.
Statuses == {200, 201, 204, 302, 401, 404, 429, 503, 599, 600}

\* What a frame hands to its caller: a returned value or a raised exception.
\* A returned requests.Response carries its status code and whether its text
\* is non-empty.
NoRet == [kind |-> "none", val |-> "-", exc |-> "-", msg |-> "-", status |-> 0, text |-> FALSE]
Return(v) == [kind |-> "return", val |-> v, exc |-> "-", msg |-> "-", status |-> 0, text |-> FALSE]
ReturnResponse(s, t) ==
    [kind |-> "return", val |-> "response", exc |-> "-", msg |-> "-", status |-> s, text |-> t]
Raise(e, m) == [kind |-> "raise", val |-> "-", exc |-> e, msg |-> m, status |-> 0, text |-> FALSE]

(***************************************************************************)
(* Text of log messages: a sequence of tokens.  Only the parts taken from  *)
(* the request (url, params) and from the raised error are kept.           *)
(***************************************************************************)
\* The passwords of the two executions compared (configuration["password"]).
Passwords == {<<"a">>, <<"b", "&", "c">>}

\* The query-string encoding requests applies to a parameter value.
UrlEncodeToken(t) == IF t = "&" THEN "%26" ELSE IF t = " " THEN "+" ELSE t
UrlEncode(s) == [i \in 1..Len(s) |-> UrlEncodeToken(s[i])]

\* [^&\s]
IsValueToken(t) == t \notin {"&", " "}

RECURSIVE SkipValue(_)
SkipValue(s) ==
    IF s = <<>> THEN <<>>
    ELSE IF IsValueToken(Head(s)) THEN SkipValue(Tail(s)) ELSE s

RECURSIVE remove_sensitive_info(_)
remove_sensitive_info(data) ==
    IF data = <<>> THEN <<>>
    ELSE IF /\ Head(data) = "password="
            /\ Len(data) >= 2
            /\ IsValueToken(data[2])
         THEN <<"password=<Password>">> \o remove_sensitive_info(SkipValue(Tail(data)))
         ELSE <<Head(data)>> \o remove_sensitive_info(Tail(data))

\* auth_params of get_auth_header as printed by f"{params}".
AuthParamsRepr(password) == <<"username", "user", "password">> \o password

\* params of a request as printed in the debug message.
ParamsRepr(url, password) ==
    IF url = "login" THEN AuthParamsRepr(password) ELSE <<"caller-params">>

\* str(error) of an exception raised by requests.request: it names the URL
\* with its encoded query string.
RequestErrorStr(url, password) ==
    IF url = "login"
    THEN <<"url:", "/api/login", "?", "username=", "user", "&", "password=">>
             \o UrlEncode(password) \o <<" ", "(Caused by ...)">>
    ELSE <<"url:", "/endpoint", " ", "(Caused by ...)">>

LogMsg(level, kind, text) == [level |-> level, kind |-> kind, text |-> text]

(***************************************************************************)
(* parse_response and handle_error of both helpers.  Each yields the value *)
(* returned or the exception raised, and the logger.error calls made.      *)
(***************************************************************************)
Outcome(r, logs) == [ret |-> r, logs |-> logs]

ForescoutParseResponse(parse, is_validation) ==
    IF parse = "json" THEN Outcome(Return("json_body"), <<>>)
    ELSE IF parse = "JSONDecodeError"
         THEN Outcome(Raise(ForescoutPluginException,
                            IF is_validation THEN "Verify Base URL"
                            ELSE "Invalid JSON response"),
                      <<LogMsg("error", "parse_response", <<"Invalid JSON response">>)>>)
         ELSE Outcome(Raise(ForescoutPluginException,
                            IF is_validation THEN "Unexpected validation error"
                            ELSE "Unexpected error while parsing"),
                      <<LogMsg("error", "parse_response", <<"Unexpected error while parsing">>)>>)

\* error_dict of ForescoutPluginHelper.handle_error (same keys with and
\* without is_validation).
ForescoutErrorDict(is_validation) ==
    IF is_validation
    THEN [s \in {400, 401, 403, 404} |->
            CASE s = 400 -> "400, Bad Request, Verify Base URL, Username and Password"
              [] s = 401 -> "401, Unauthorized, Verify Username and Password"
              [] s = 403 -> "403, Forbidden, Verify Username and Password"
              [] s = 404 -> "404, Resource not found, Verify Base URL"]
    ELSE [s \in {400, 401, 403, 404} |->
            CASE s = 400 -> "400, HTTP client error"
              [] s = 401 -> "401, Unauthorized access"
              [] s = 403 -> "403, Forbidden"
              [] s = 404 -> "404, Resource not found"]

ForescoutHandleErrorNoElse(status_code, parse, is_validation) ==
    IF status_code \in {200, 201}
    THEN ForescoutParseResponse(parse, is_validation)
    ELSE IF status_code = 204 THEN Outcome(Return("empty_dict"), <<>>)
    ELSE IF status_code \in DOMAIN ForescoutErrorDict(is_validation)
         THEN Outcome(Raise(ForescoutPluginException,
                            ForescoutErrorDict(is_validation)[status_code]),
                      <<LogMsg("error", "handle_error", <<"exit code">>)>>)
         ELSE Outcome(Return("None"), <<>>)

ForescoutHandleError(status_code, parse, is_validation) ==
    IF status_code \in {200, 201}
    THEN ForescoutParseResponse(parse, is_validation)
    ELSE IF status_code = 204 THEN Outcome(Return("empty_dict"), <<>>)
    ELSE IF status_code \in DOMAIN ForescoutErrorDict(is_validation)
         THEN Outcome(Raise(ForescoutPluginException,
                            ForescoutErrorDict(is_validation)[status_code]),
                      <<LogMsg("error", "handle_error", <<"exit code">>)>>)
         ELSE Outcome(Raise(ForescoutPluginException,
                            IF status_code >= 500 /\ status_code <= 600
                            THEN "HTTP Server Error" ELSE "HTTP Error"),
                      <<LogMsg("error", "handle_error", <<"exit code">>)>>)

VisoParseResponse(parse, is_validation) ==
    IF parse = "json" THEN Outcome(Return("json_body"), <<>>)
    ELSE IF parse = "JSONDecodeError"
         THEN Outcome(Raise(VisoTrustException,
                            IF is_validation THEN "Verify VISO TRUST Base URL and API Token"
                            ELSE "Invalid JSON response"),
                      <<LogMsg("error", "parse_response", <<"Invalid JSON response">>)>>)
         ELSE Outcome(Raise(VisoTrustException,
                            IF is_validation THEN "Unexpected validation error"
                            ELSE "Unexpected error while parsing"),
                      <<LogMsg("error", "parse_response", <<"Unexpected error while parsing">>)>>)

VisoHandleError(status_code, parse, is_validation) ==
    LET err(m) == Outcome(Raise(VisoTrustException, m),
                          <<LogMsg("error", "handle_error", <<"exit code">>)>>)
    IN  IF status_code \in {200, 201, 202}
        THEN VisoParseResponse(parse, is_validation)
        ELSE IF status_code = 204 THEN Outcome(Return("empty_dict"), <<>>)
        ELSE IF status_code = 403 THEN err("403, Forbidden")
        ELSE IF status_code = 404 THEN err("404, Resource not found")
        ELSE IF status_code >= 400 /\ status_code < 500 THEN err("HTTP client error")
        ELSE IF status_code >= 500 /\ status_code < 600 THEN err("HTTP Server Error")
        ELSE err("HTTP Error")

\* The plugin's exception type and handle_error, by helper class.
PluginException(h) ==
    IF h = "forescout" THEN ForescoutPluginException ELSE VisoTrustException

HandleError(h, status_code, parse, is_validation) ==
    IF h = "forescout"
    THEN ForescoutHandleError(status_code, parse, is_validation)
    ELSE VisoHandleError(status_code, parse, is_validation)


(***************************************************************************)
(* api_helper: the except clauses around the request loop.  Given the      *)
(* exception raised inside the try block, the exception that leaves        *)
(* api_helper and the logger.error calls made on the way.                  *)
(***************************************************************************)
ForescoutExceptNoReraise(exc, msg, is_validation, errstr) ==
    IF exc = "ProxyError"
    THEN Outcome(Raise(ForescoutPluginException, "Proxy error occurred"),
                 <<LogMsg("error", "ProxyError", remove_sensitive_info(errstr))>>)
    ELSE IF exc = "ConnectionError"
    THEN Outcome(Raise(ForescoutPluginException, "Unable to establish connection"),
                 <<LogMsg("error", "ConnectionError", remove_sensitive_info(errstr))>>)
    ELSE IF exc = "HTTPError"
    THEN Outcome(Raise(ForescoutPluginException, "HTTP error occurred"),
                 <<LogMsg("error", "HTTPError", remove_sensitive_info(errstr))>>)
    ELSE Outcome(Raise(ForescoutPluginException,
                       IF is_validation THEN "Unexpected error. Check logs"
                       ELSE "Unexpected error occurred"),
                 <<LogMsg("error", "Exception", remove_sensitive_info(errstr))>>)

ForescoutExcept(exc, msg, is_validation, errstr) ==
    IF exc = ForescoutPluginException
    THEN Outcome(Raise(ForescoutPluginException, msg), <<>>)
    ELSE IF exc = "ProxyError"
    THEN Outcome(Raise(ForescoutPluginException, "Proxy error occurred"),
                 <<LogMsg("error", "ProxyError", remove_sensitive_info(errstr))>>)
    ELSE IF exc = "ConnectionError"
    THEN Outcome(Raise(ForescoutPluginException, "Unable to establish connection"),
                 <<LogMsg("error", "ConnectionError", remove_sensitive_info(errstr))>>)
    ELSE IF exc = "HTTPError"
    THEN Outcome(Raise(ForescoutPluginException, "HTTP error occurred"),
                 <<LogMsg("error", "HTTPError", remove_sensitive_info(errstr))>>)
    ELSE Outcome(Raise(ForescoutPluginException,
                       IF is_validation THEN "Unexpected error. Check logs"
                       ELSE "Unexpected error occurred"),
                 <<LogMsg("error", "Exception", remove_sensitive_info(errstr))>>)

\* The VISO TRUST helper logs the error text as it is.
VisoExcept(exc, msg, errstr) ==
    IF exc = "ProxyError"
    THEN Outcome(Raise(VisoTrustException, "Proxy error occurred"),
                 <<LogMsg("error", "ProxyError", errstr)>>)
    ELSE IF exc = "ConnectionError"
    THEN Outcome(Raise(VisoTrustException, "Unable to establish connection"),
                 <<LogMsg("error", "ConnectionError", errstr)>>)
    ELSE IF exc = "HTTPError"
    THEN Outcome(Raise(VisoTrustException, "HTTP Error occurred"),
                 <<LogMsg("error", "HTTPError", errstr)>>)
    ELSE IF exc = VisoTrustException
    THEN Outcome(Raise(VisoTrustException, msg), <<>>)
    ELSE Outcome(Raise(VisoTrustException, "Unexpected error occurred"),
                 <<LogMsg("error", "Exception", errstr)>>)

RetryableStatusAllErrors(status_code) ==
    status_code = 429 \/ (400 <= status_code /\ status_code <= 600)

\* 429 or 500 <= status_code <= 600: the statuses the loop retries.
RetryableStatus(status_code) ==
    status_code = 429 \/ (500 <= status_code /\ status_code <= 600)

\* retry_counter == MAX_API_CALLS - 1: the retry that raises instead of sleeping.
LastAttemptOffByOne(retry_counter) == retry_counter = MAX_API_CALLS

LastAttempt(retry_counter) == retry_counter = MAX_API_CALLS - 1

(***************************************************************************)
(* The call stack                                                          *)
(***************************************************************************)
ApiFrame(url, her, val, regen, show) ==
    [fn |-> "api_helper", url |-> url, is_handle_error_required |-> her,
     is_validation |-> val, regenerate_auth_token |-> regen,
     show_params |-> show, retry_counter |-> 0, pc |-> "enter"]

\* get_auth_header(username, password, base_url, verify, proxies, is_validation)
AuthFrame(val) ==
    [fn |-> "get_auth_header", url |-> "login", is_handle_error_required |-> FALSE,
     is_validation |-> val, regenerate_auth_token |-> FALSE,
     show_params |-> FALSE, retry_counter |-> 0, pc |-> "enter"]

Top == stack[Len(stack)]
Below == SubSeq(stack, 1, Len(stack) - 1)
SetTop(f) == [stack EXCEPT ![Len(stack)] = f]
Running(fn, pc) == stack # <<>> /\ Top.fn = fn /\ Top.pc = pc

\* A call made with the stack full raises RecursionError at the call site.
StackFull == Len(stack) >= RecursionLimit

\* History of the top-level call, kept for the properties: what was sent,
\* received and slept so far.
NoHistory ==
    [nRequests |-> 0,          \* calls of requests.request
     nLogin |-> 0,             \* of them, to /api/login
     nAuth |-> 0,              \* calls of get_auth_header
     nSleeps |-> 0,            \* calls of time.sleep
     slept |-> 0,              \* seconds slept
     last |-> "none",          \* the last of: "response", "exception", "sleep"
     onlyRetry |-> TRUE,       \* every request so far was answered 429 or 5xx
     final |-> FALSE,          \* a response that ends the call, as documented
     afterFinal |-> FALSE,     \* a request was sent after such a response
     fatal |-> FALSE,          \* a response the code neither retries nor renews on
     afterFatal |-> FALSE]     \* a request was sent after such a response

Is2xx(s) == 200 <= s /\ s <= 299
Is5xx(s) == 500 <= s /\ s <= 599

\* The 401 that api_helper answers by renewing the token (lines 186-190).
Renews(f, s) ==
    helper = "forescout" /\ s = 401 /\ f.regenerate_auth_token /\ ~f.is_validation

\* requests.request(url) was called by frame f and answered with status s.
Answered(h, f, s) ==
    [h EXCEPT !.nRequests = @ + 1,
              !.nLogin = @ + (IF f.url = "login" THEN 1 ELSE 0),
              !.last = "response",
              !.onlyRetry = @ /\ (s = 429 \/ Is5xx(s)),
              !.afterFinal = @ \/ h.final,
              !.afterFatal = @ \/ h.fatal,
              !.final = @ \/ (f.is_handle_error_required /\ ~Is2xx(s)
                              /\ ~(s = 429 \/ Is5xx(s))),
              !.fatal = @ \/ (f.is_handle_error_required /\ ~Is2xx(s)
                              /\ ~(s = 429 \/ (500 <= s /\ s <= 600))
                              /\ ~Renews(f, s))]

\* requests.request(url) was called by frame f and raised.
Unanswered(h, f) ==
    [h EXCEPT !.nRequests = @ + 1,
              !.nLogin = @ + (IF f.url = "login" THEN 1 ELSE 0),
              !.last = "exception",
              !.onlyRetry = FALSE,
              !.afterFinal = @ \/ h.final,
              !.afterFatal = @ \/ h.fatal]

\* time.sleep(secs)
Slept(h, secs) ==
    [h EXCEPT !.nSleeps = @ + 1, !.slept = @ + secs, !.last = "sleep"]

\* self.logger.<level>(...) with the same message template in both executions.
Logged(msgs(_)) == [p \in Passwords |-> log[p] \o msgs(p)]

\* Leave the top frame with outcome o(p), making its logger calls.  What is
\* returned or raised does not depend on the password; the log text may.
Leave(o(_)) ==
    /\ stack' = Below
    /\ ret' = o(CHOOSE p \in Passwords : TRUE).ret
    /\ log' = [p \in Passwords |-> log[p] \o o(p).logs]

WithLogs(before, o) == [o EXCEPT !.logs = before \o @]

\* An outcome produced inside api_helper's try block, as it leaves api_helper.
ForescoutLeaving(o, f, p) ==
    IF o.ret.kind = "raise"
    THEN LET e == ForescoutExcept(o.ret.exc, o.ret.msg, f.is_validation,
                                  RequestErrorStr(f.url, p))
         IN  Outcome(e.ret, o.logs \o e.logs)
    ELSE o

VisoLeaving(o, f, p) ==
    IF o.ret.kind = "raise"
    THEN LET e == VisoExcept(o.ret.exc, o.ret.msg, RequestErrorStr(f.url, p))
         IN  Outcome(e.ret, o.logs \o e.logs)
    ELSE o


(***************************************************************************)
(* ForescoutPluginHelper.api_helper and get_auth_header                    *)
(***************************************************************************)
DebugResponse == <<LogMsg("debug", "response", <<>>)>>

\* Lines 155-168: the debug message of the request, params included when
\* show_params is set.
FsEnter ==
    /\ helper = "forescout"
    /\ Running("api_helper", "enter")
    /\ stack' = SetTop([Top EXCEPT !.pc = "loop"])
    /\ log' = Logged(LAMBDA p :
                 <<LogMsg("debug", "request",
                          <<Top.url>> \o (IF Top.show_params
                                          THEN ParamsRepr(Top.url, p) ELSE <<>>))>>)
    /\ UNCHANGED <<helper, call, ret, hist, he, app>>
    /\ UNCHANGED varsMisp

\* Lines 170-180, 258-338: requests.request raises.
FsRequestRaises ==
    /\ helper = "forescout"
    /\ Running("api_helper", "loop")
    /\ \E e \in RequestExceptions :
          Leave(LAMBDA p : ForescoutLeaving(Outcome(Raise(e, "-"), <<>>), Top, p))
    /\ hist' = Unanswered(hist, Top)
    /\ UNCHANGED <<helper, call, he, app>>
    /\ UNCHANGED varsMisp

\* Lines 170-255: one iteration of the retry loop on a response.
FsResponse ==
    /\ helper = "forescout"
    /\ Running("api_helper", "loop")
    /\ \E s \in Statuses, parse \in ParseOutcomes, txt \in BOOLEAN :
        LET f == Top
            got == Answered(hist, f, s)
        IN
        IF s = 401 /\ f.regenerate_auth_token /\ ~f.is_validation
        THEN /\ hist' = [got EXCEPT !.nAuth = @ + (IF StackFull THEN 0 ELSE 1)]
             /\ IF StackFull
                THEN Leave(LAMBDA p : WithLogs(DebugResponse,
                        ForescoutLeaving(Outcome(Raise("RecursionError", "-"), <<>>), f, p)))
                ELSE /\ stack' = Append(SetTop([f EXCEPT !.pc = "wait_auth"]),
                                        AuthFrame(f.is_validation))
                     /\ ret' = NoRet
                     /\ log' = Logged(LAMBDA p : DebugResponse)
        ELSE IF RetryableStatus(s) /\ ~f.is_validation
        THEN IF LastAttempt(f.retry_counter)
             THEN /\ hist' = got
                  /\ Leave(LAMBDA p : WithLogs(DebugResponse,
                        ForescoutLeaving(
                            Outcome(Raise(ForescoutPluginException, "Max retries exceeded"),
                                    <<LogMsg("error", "max_retries", <<>>)>>), f, p)))
             ELSE /\ hist' = Slept(got, DEFAULT_WAIT_TIME)
                  /\ log' = Logged(LAMBDA p :
                               DebugResponse \o <<LogMsg("error", "retry", <<>>)>>)
                  /\ IF f.retry_counter + 1 < MAX_API_CALLS
                     THEN /\ stack' = SetTop([f EXCEPT !.retry_counter = @ + 1])
                          /\ ret' = NoRet
                     ELSE \* range(MAX_API_CALLS) is exhausted: the function ends
                          /\ stack' = Below
                          /\ ret' = Return("None")
        ELSE /\ hist' = got
             /\ Leave(LAMBDA p : WithLogs(DebugResponse,
                   IF f.is_handle_error_required
                   THEN ForescoutLeaving(ForescoutHandleError(s, parse, f.is_validation), f, p)
                   ELSE Outcome(ReturnResponse(s, s \in {200, 201} /\ txt), <<>>)))
    /\ UNCHANGED <<helper, call, he, app>>
    /\ UNCHANGED varsMisp

\* Lines 493-510: get_auth_header calls api_helper on /api/login.
FsGetAuthHeaderCall ==
    /\ helper = "forescout"
    /\ Running("get_auth_header", "enter")
    /\ IF StackFull
       THEN Leave(LAMBDA p :
                Outcome(Raise(ForescoutPluginException, "Unexpected error getting auth token"),
                        <<LogMsg("error", "get_auth_header", <<"RecursionError">>)>>))
       ELSE /\ stack' = Append(SetTop([Top EXCEPT !.pc = "wait_login"]),
                               ApiFrame("login", FALSE, FALSE, TRUE, FALSE))
            /\ ret' = NoRet
            /\ UNCHANGED log
    /\ UNCHANGED <<helper, call, hist, he, app>>
    /\ UNCHANGED varsMisp

\* Lines 511-554: get_auth_header on the answer of the login call.
FsGetAuthHeaderResume ==
    /\ helper = "forescout"
    /\ Running("get_auth_header", "wait_login")
    /\ ret.kind # "none"
    /\ LET unexpected ==
               Outcome(Raise(ForescoutPluginException, "Unexpected error getting auth token"),
                       <<LogMsg("error", "get_auth_header", <<"Exception">>)>>)
           o == IF ret.kind = "raise"
                THEN IF ret.exc = ForescoutPluginException
                     THEN Outcome(ret, <<>>) ELSE unexpected
                ELSE IF ret.val # "response" THEN unexpected
                ELSE IF ret.status \in {200, 201}
                THEN IF ret.text THEN Outcome(Return("auth_header"), <<>>)
                     ELSE Outcome(Raise(ForescoutPluginException, "Invalid authentication token"),
                                  <<LogMsg("error", "get_auth_header", <<"Invalid token">>)>>)
                ELSE ForescoutHandleError(ret.status, "json", TRUE)
       IN  Leave(LAMBDA p : o)
    /\ UNCHANGED <<helper, call, hist, he, app>>
    /\ UNCHANGED varsMisp

\* Lines 202-217: headers.update(auth_header) and the request issued again
\* by a recursive call with regenerate_auth_token=False.
FsReissue ==
    /\ helper = "forescout"
    /\ Running("api_helper", "wait_auth")
    /\ ret.kind # "none"
    /\ LET f == Top IN
       IF ret.kind = "raise"
       THEN Leave(LAMBDA p : ForescoutLeaving(Outcome(ret, <<>>), f, p))
       ELSE IF ret.val \notin {"auth_header", "empty_dict"}
       THEN Leave(LAMBDA p : ForescoutLeaving(Outcome(Raise("TypeError", "-"), <<>>), f, p))
       ELSE IF StackFull
       THEN Leave(LAMBDA p : ForescoutLeaving(Outcome(Raise("RecursionError", "-"), <<>>), f, p))
       ELSE /\ stack' = Append(SetTop([f EXCEPT !.pc = "wait_reissue"]),
                               ApiFrame(f.url, f.is_handle_error_required,
                                        f.is_validation, FALSE, TRUE))
            /\ ret' = NoRet
            /\ UNCHANGED log
    /\ UNCHANGED <<helper, call, hist, he, app>>
    /\ UNCHANGED varsMisp

\* Line 203: return self.api_helper(...).
FsReissueReturns ==
    /\ helper = "forescout"
    /\ Running("api_helper", "wait_reissue")
    /\ ret.kind # "none"
    /\ Leave(LAMBDA p : ForescoutLeaving(Outcome(ret, <<>>), Top, p))
    /\ UNCHANGED <<helper, call, hist, he, app>>
    /\ UNCHANGED varsMisp

(***************************************************************************)
(* VisoTrustPluginHelper.api_helper                                        *)
(***************************************************************************)
\* What json.loads(data) does with the data argument.
DataKinds == {"json", "not_json", "None"}

\* Lines 136-147: the debug message, then json.loads / json.dumps of data.
VtEnter ==
    /\ helper = "viso"
    /\ Running("api_helper", "enter")
    /\ LET dbg == <<LogMsg("debug", "request", <<Top.url>>)>> IN
       IF call.data = "json"
       THEN /\ stack' = SetTop([Top EXCEPT !.pc = "loop"])
            /\ log' = Logged(LAMBDA p : dbg)
            /\ UNCHANGED ret
       ELSE Leave(LAMBDA p : WithLogs(dbg,
               VisoLeaving(Outcome(Raise(IF call.data = "None" THEN "TypeError"
                                         ELSE "JSONDecodeError", "-"), <<>>), Top, p)))
    /\ UNCHANGED <<helper, call, hist, he, app>>
    /\ UNCHANGED varsMisp

\* Lines 149-158, 205-246: requests.request raises.
VtRequestRaises ==
    /\ helper = "viso"
    /\ Running("api_helper", "loop")
    /\ \E e \in RequestExceptions :
          Leave(LAMBDA p : VisoLeaving(Outcome(Raise(e, "-"), <<>>), Top, p))
    /\ hist' = Unanswered(hist, Top)
    /\ UNCHANGED <<helper, call, he, app>>
    /\ UNCHANGED varsMisp

\* Lines 148-204: one iteration of the retry loop on a response.
VtResponse ==
    /\ helper = "viso"
    /\ Running("api_helper", "loop")
    /\ \E s \in Statuses, parse \in ParseOutcomes, txt \in BOOLEAN :
        LET f == Top
            got == Answered(hist, f, s)
        IN
        IF RetryableStatus(s) /\ ~f.is_validation
        THEN IF LastAttempt(f.retry_counter)
             THEN /\ hist' = got
                  /\ Leave(LAMBDA p : WithLogs(DebugResponse,
                        VisoLeaving(
                            Outcome(Raise(VisoTrustException, "Max retries exceeded"),
                                    <<LogMsg("error", "max_retries", <<>>)>>), f, p)))
             ELSE /\ hist' = Slept(got, DEFAULT_WAIT_TIME)
                  /\ log' = Logged(LAMBDA p :
                               DebugResponse \o <<LogMsg("error", "retry", <<>>)>>)
                  /\ IF f.retry_counter + 1 < MAX_API_CALLS
                     THEN /\ stack' = SetTop([f EXCEPT !.retry_counter = @ + 1])
                          /\ ret' = NoRet
                     ELSE /\ stack' = Below
                          /\ ret' = Return("None")
        ELSE /\ hist' = got
             /\ Leave(LAMBDA p : WithLogs(DebugResponse,
                   IF f.is_handle_error_required
                   THEN VisoLeaving(VisoHandleError(s, parse, f.is_validation), f, p)
                   ELSE Outcome(ReturnResponse(s, s \in {200, 201} /\ txt), <<>>)))
    /\ UNCHANGED <<helper, call, he, app>>
    /\ UNCHANGED varsMisp

(***************************************************************************)
(* MISP plugin: values                                                     *)
(***************************************************************************)
\* Values of misp/utils/constants.py.
PULL_PAGE_SIZE == 2
RETRACTION == "[Retraction]"
RETRACTION_BATCH == "RETRACTION_BATCH"
ATTRIBUTE_TYPES == {"md5", "sha256", "url", "domain", "hostname", "ip-src", "ip-dst",
                    "domain|ip"}
MISPPluginException == "MISPPluginException"
DEFAULT_IOC_TAG == "netskope-ce"
SHARING_TAG_CONSTANT == "Netskope CE"
BATCH_SIZE == 1

\* Attributes the server holds at most, and what the host hands to the plugin
\* at most: operations it starts and indicator batches it passes to them.
MaxAttrs == 3
MaxCalls == 3

\* Attribute and indicator values are strings, kept as sequences of tokens
\* so that "|" can be told apart from the text around it.
SourceValues == {<<"v1">>, <<"v2">>}

\* Attributes a MISP server may hold: a hash, a domain|ip pair, an attribute
\* of a type the plugin does not support, and one of an excluded event.
\* first_seen is None, an ISO 8601 string ("iso") or another string ("bad");
\* Tag holds the names of the tags attached to the attribute, and origin
\* tells who wrote it: another user of the server ("misp") or push.
Attributes ==
    { [id |-> "1", value |-> <<"v1">>, type |-> "md5", event_id |-> "e1", info |-> "Event One",
          first_seen |-> "None", Tag |-> {"osint"}, origin |-> "misp"],
      [id |-> "2", value |-> <<"v2", "|", "v3">>, type |-> "domain|ip", event_id |-> "e1",
          info |-> "Event One", first_seen |-> "None", Tag |-> {}, origin |-> "misp"],
      [id |-> "3", value |-> <<"v2">>, type |-> "comment", event_id |-> "e1",
          info |-> "Event One", first_seen |-> "None", Tag |-> {}, origin |-> "misp"],
      [id |-> "4", value |-> <<"v1">>, type |-> "url", event_id |-> "e2", info |-> "Excluded",
          first_seen |-> "None", Tag |-> {}, origin |-> "misp"] }

\* The events of these attributes, and the one events/add creates.
EventIds == {a.event_id : a \in Attributes} \cup {"e3"}

\* Sequences of at most n elements of S.
RECURSIVE SeqsUpTo(_, _)
SeqsUpTo(S, n) ==
    IF n = 0 THEN {<<>>}
    ELSE LET shorter == SeqsUpTo(S, n - 1)
         IN  shorter \cup {Append(q, x) : q \in {r \in shorter : Len(r) = n - 1}, x \in S}

Distinct(q) == \A i, j \in 1..Len(q) : i # j => q[i] # q[j]

\* attributes/restSearch: the page of `limit` attributes numbered `page`.
RestSearch(attrs, page, limit) ==
    LET first == (page - 1) * limit + 1
        last == IF page * limit < Len(attrs) THEN page * limit ELSE Len(attrs)
    IN  IF first > Len(attrs) THEN <<>> ELSE SubSeq(attrs, first, last)

\* str.split("|")
RECURSIVE Split(_)
Split(value) ==
    IF \A i \in 1..Len(value) : value[i] # "|" THEN <<value>>
    ELSE LET i == CHOOSE k \in 1..Len(value) :
                      value[k] = "|" /\ \A j \in 1..(k - 1) : value[j] # "|"
         IN  <<SubSeq(value, 1, i - 1)>> \o Split(SubSeq(value, i + 1, Len(value)))

\* The comma-separated event_name parameter as a list of names.
ExcludeEvents(config) == IF config.event_name = "" THEN {} ELSE {config.event_name}

Excluded(attr, exclude_events) ==
    attr.info \in exclude_events \/ attr.event_id \in exclude_events

\* The query body of attributes/restSearch.  `window` stands for the
\* attribute_timestamp range, fixed when the body is built.
\* An empty eventid or tags stands for a body without that key.
None == [kind |-> "None", page |-> 0, limit |-> 0, window |-> 0, eventid |-> <<>>,
         tags |-> <<>>]
Absent == [kind |-> "absent", page |-> 0, limit |-> 0, window |-> 0, eventid |-> <<>>,
           tags |-> <<>>]
Body(now, event_ids, misp_tags) ==
    [kind |-> "body", page |-> 1, limit |-> PULL_PAGE_SIZE, window |-> now,
     eventid |-> event_ids, tags |-> misp_tags]

\* A tag of the tags filter: f"!{name}" leaves out the attributes that carry
\* the tag, a plain name asks for them.
Not(tag_name) == [negated |-> TRUE, name |-> tag_name]
Tagged(tag_name) == [negated |-> FALSE, name |-> tag_name]

\* The tags filter of _pull and get_modified_indicators.
MispTagsUserOnly(config) ==
    IF config.tags = "" THEN <<>> ELSE <<Tagged(config.tags)>>
MispTags(config) ==
    <<Not(DEFAULT_IOC_TAG)>> \o (IF config.tags = "" THEN <<>> ELSE <<Tagged(config.tags)>>)

\* The attributes the server selects for a body: those of the events of
\* eventid, without the tags the filter negates and with one of the tags
\* it asks for.
Matches(attr, body) ==
    LET filter == {body.tags[i] : i \in 1..Len(body.tags)}
        wanted == {t.name : t \in {u \in filter : ~u.negated}}
        unwanted == {t.name : t \in {u \in filter : u.negated}}
    IN  /\ body.eventid # <<>> =>
               \E i \in 1..Len(body.eventid) : body.eventid[i] = attr.event_id
        /\ attr.Tag \cap unwanted = {}
        /\ wanted # {} => attr.Tag \cap wanted # {}

RECURSIVE Select(_, _)
Select(attrs, body) ==
    IF attrs = <<>> THEN <<>>
    ELSE (IF Matches(Head(attrs), body) THEN <<Head(attrs)>> ELSE <<>>)
         \o Select(Tail(attrs), body)

\* attributes/restSearch with a body: the page of the selected attributes.
Search(attrs, body) == RestSearch(Select(attrs, body), body.page, body.limit)

\* Pages a loop may ask for before the model stops following it.
MaxPage == MaxAttrs + 1

\* Configuration values: None or an int.
NoneValue == [type |-> "NoneType", val |-> 0]
IntValue(n) == [type |-> "int", val |-> n]

InitialLogPrefix == <<"CTE", "MISP", "[cfg]">>

NoYield == [indicators |-> <<>>, values |-> {}, flag |-> "-"]
NoGen ==
    [name |-> "-", pc |-> "-", body |-> None, source |-> {}, remaining |-> {},
     available |-> [e \in EventIds |-> <<>>], event_ids |-> <<>>, now |-> 0,
     last_page |-> FALSE, yielded |-> NoYield, exc |-> "-"]
NoLoop == [op |-> "-", sent |-> <<>>, lens |-> <<>>, ended |-> "-", emptied |-> FALSE,
           seen |-> {}, deletes |-> <<>>, looked |-> <<>>]
NoAsked == [page |-> 0, got |-> 0]
NoCycle == [start |-> None, asked |-> NoAsked, got |-> <<>>]

IdleMisp ==
    /\ log_prefix = InitialLogPrefix
    /\ configuration = [retraction_interval |-> NoneValue, event_name |-> "",
                        include_event_name |-> "", tags |-> ""]
    /\ retraction_batch = RETRACTION_BATCH
    /\ sub_checkpoint = Absent
    /\ misp_attrs = <<>>
    /\ gen = NoGen
    /\ calls = 0
    /\ loop = NoLoop
    /\ runs = {}
    /\ cycle = NoCycle

(***************************************************************************)
(* One top-level api_helper call                                           *)
(***************************************************************************)
\* No function of the MISP plugin is being applied on its own.
NoApp == [fn |-> "-"]

NoHE == [h |-> "-", status |-> 0, parse |-> "-", is_validation |-> FALSE, done |-> FALSE,
         out |-> Outcome(NoRet, <<>>)]

Calls ==
    [h : {"forescout"}, is_validation : BOOLEAN, is_handle_error_required : BOOLEAN,
     regenerate_auth_token : BOOLEAN, data : {"json"}]
    \cup
    [h : {"viso"}, is_validation : BOOLEAN, is_handle_error_required : BOOLEAN,
     regenerate_auth_token : {FALSE}, data : DataKinds]

\* The values of the api_helper variables while another part is examined.
IdleHelper ==
    /\ helper = "-"
    /\ call = [h |-> "-", is_validation |-> FALSE, is_handle_error_required |-> FALSE,
               regenerate_auth_token |-> FALSE, data |-> "json"]
    /\ stack = <<>>
    /\ ret = NoRet
    /\ hist = NoHistory
    /\ log = [p \in Passwords |-> <<>>]

InitHelper ==
    /\ call \in Calls
    /\ helper = call.h
    /\ stack = <<ApiFrame("endpoint", call.is_handle_error_required, call.is_validation,
                          call.regenerate_auth_token, TRUE)>>
    /\ ret = NoRet
    /\ hist = NoHistory
    /\ log = [p \in Passwords |-> <<>>]
    /\ he = NoHE
    /\ app = NoApp
    /\ IdleMisp

NextHelper ==
    \/ FsEnter
    \/ FsRequestRaises
    \/ FsResponse
    \/ FsGetAuthHeaderCall
    \/ FsGetAuthHeaderResume
    \/ FsReissue
    \/ FsReissueReturns
    \/ VtEnter
    \/ VtRequestRaises
    \/ VtResponse

SpecHelper == InitHelper /\ [][NextHelper]_vars

\* The top-level call has returned or raised.
Done == stack = <<>>


(***************************************************************************)
(* Properties of api_helper (SpecHelper)                                   *)
(***************************************************************************)
\* logger.error calls that report a failure (the retry notices apart).
RECURSIVE ErrorCount(_)
ErrorCount(l) ==
    IF l = <<>> THEN 0
    ELSE (IF Head(l).level = "error" /\ Head(l).kind # "retry" THEN 1 ELSE 0)
         + ErrorCount(Tail(l))

RaisedPluginException == ret.kind = "raise" /\ ret.exc = PluginException(helper)

\* C1: with is_validation false, when every response is 429 or 5xx the call
\* sends exactly MAX_API_CALLS requests, sleeps DEFAULT_WAIT_TIME after each
\* of the first MAX_API_CALLS - 1 and then raises the plugin exception; it
\* never sends a further request.
RetryLoopStopsAtMax ==
    (~call.is_validation /\ call.data = "json" /\ hist.onlyRetry) =>
        /\ hist.nRequests <= MAX_API_CALLS
        /\ hist.nSleeps = IF hist.last = "sleep" THEN hist.nRequests
                          ELSE IF hist.nRequests = 0 THEN 0 ELSE hist.nRequests - 1
        /\ hist.nSleeps <= MAX_API_CALLS - 1
        /\ hist.slept = hist.nSleeps * DEFAULT_WAIT_TIME
        /\ Done <=> (hist.nRequests = MAX_API_CALLS /\ hist.last = "response")
        /\ Done => RaisedPluginException /\ hist.nLogin = 0

RetryLoopExhausted ==
    /\ Done /\ ~call.is_validation /\ hist.onlyRetry
    /\ hist.nRequests = MAX_API_CALLS /\ hist.nSleeps = MAX_API_CALLS - 1
    /\ hist.nRequests >= 2
    /\ RaisedPluginException

\* C2: a call of ForescoutPluginHelper.api_helper sends a bounded number of
\* HTTP requests whatever the server answers: the request, one login and the
\* request again, each tried at most MAX_API_CALLS times.
ForescoutRequestsBounded ==
    helper = "forescout" => hist.nRequests <= 3 * MAX_API_CALLS

\* C25: token regeneration happens once for a top-level request of the
\* Forescout helper: get_auth_header is called at most once and the login
\* endpoint is requested at most once, the re-issued request never leading
\* to another regeneration.
TokenRegeneratedOnce ==
    helper = "forescout" => hist.nAuth <= 1 /\ hist.nLogin <= 1

LogIndependentOfPassword ==
    helper = "forescout" => \A p, q \in Passwords : log[p] = log[q]


(***************************************************************************)
(* handle_error on its own (SpecHandleError): one response of any status.  *)
(***************************************************************************)
\* Status codes 0..MaxStatusCode are tried.
MaxStatusCode == 700
StatusCodes == 0..MaxStatusCode

InitHandleError ==
    /\ IdleHelper
    /\ IdleMisp
    /\ he \in [h : {"forescout", "viso"}, status : StatusCodes, parse : ParseOutcomes,
               is_validation : BOOLEAN, done : {FALSE}, out : {Outcome(NoRet, <<>>)}]
    /\ app = NoApp

ApplyHandleError ==
    /\ ~he.done
    /\ he' = [he EXCEPT !.done = TRUE,
                        !.out = HandleError(he.h, he.status, he.parse, he.is_validation)]
    /\ UNCHANGED app
    /\ UNCHANGED varsHelper
    /\ UNCHANGED varsMisp

NextHandleError == ApplyHandleError

SpecHandleError == InitHandleError /\ [][NextHandleError]_vars

Configurations ==
    [retraction_interval : {IntValue(7)}, event_name : {"Excluded"},
     include_event_name : {"", "Event One"}, tags : {""}]
    \cup
    [retraction_interval : {NoneValue, IntValue(0)}, event_name : {"Excluded"},
     include_event_name : {""}, tags : {""}]

\* hasattr(self, "sub_checkpoint") and getattr(self, "sub_checkpoint", None)
HasSubCheckpoint == sub_checkpoint.kind # "absent"
GetSubCheckpoint == IF HasSubCheckpoint THEN sub_checkpoint ELSE None

\* What _event_exists hands back as the event id: the id, None when the
\* event is not found or the request fails, or it raises on anything else.
EventLookups == {"e1", "None", "raise"}

\* The comma-separated include_event_name parameter as a list of names.
IncludeEventNames(config) ==
    IF config.include_event_name = "" THEN <<>> ELSE <<config.include_event_name>>

\* The components of a split value that are not empty.
RECURSIVE NonEmpty(_)
NonEmpty(parts) ==
    IF parts = <<>> THEN <<>>
    ELSE (IF Head(parts) = <<>> THEN <<>> ELSE <<Head(parts)>>) \o NonEmpty(Tail(parts))

\* Indicator(value=...) of the host raises ValidationError for a value it
\* does not accept, and datetime.fromisoformat raises ValueError for a string
\* that is not an ISO 8601 date.
Rejected(value) == \E i \in 1..Len(value) : value[i] = "bad"
FromIsoFormatRaises(attr) == attr.first_seen = "bad"

\* The indicators made of the components of a domain|ip value: the loop
\* ends at the first component Indicator() rejects.
RECURSIVE Bifurcated(_)
Bifurcated(iocs) ==
    IF iocs = <<>> THEN <<>>
    ELSE IF Head(iocs) = <<>> THEN Bifurcated(Tail(iocs))
    ELSE IF Rejected(Head(iocs)) THEN <<>>
    ELSE <<Head(iocs)>> \o Bifurcated(Tail(iocs))

PullAttributeNoSplit(attr, exclude_events) ==
    IF Excluded(attr, exclude_events) THEN <<>>
    ELSE IF attr.type \notin ATTRIBUTE_TYPES THEN <<>>
    ELSE IF attr.value = <<>> THEN <<>>
    ELSE IF FromIsoFormatRaises(attr) THEN <<>>
    ELSE IF Rejected(attr.value) THEN <<>>
    ELSE <<attr.value>>

PullAttribute(attr, exclude_events) ==
    IF Excluded(attr, exclude_events) THEN <<>>
    ELSE IF attr.type \notin ATTRIBUTE_TYPES THEN <<>>
    ELSE IF attr.value = <<>> THEN <<>>
    ELSE IF FromIsoFormatRaises(attr) THEN <<>>
    ELSE IF attr.type = "domain|ip" THEN Bifurcated(Split(attr.value))
    ELSE IF Rejected(attr.value) THEN <<>>
    ELSE <<attr.value>>

RECURSIVE PullIndicators(_, _)
PullIndicators(page, exclude_events) ==
    IF page = <<>> THEN <<>>
    ELSE PullAttribute(Head(page), exclude_events) \o PullIndicators(Tail(page), exclude_events)

\* A page shorter than the limit is the last one.
LastPageWhenEmpty(page, body) == Len(page) = 0
LastPage(page, body) == Len(page) < body.limit

NextPage(body) == [body EXCEPT !.page = @ + 1]

\* What _pull yields as the checkpoint next to the indicators of a page.
PullCheckpointStale(body, last_page) == IF last_page THEN None ELSE body
PullCheckpoint(body, last_page) == IF last_page THEN None ELSE NextPage(body)

Raised(exc) == [NoGen EXCEPT !.exc = exc]
StartLoop(op) == [NoLoop EXCEPT !.op = op, !.ended = "running"]
Sent(body) == [loop EXCEPT !.sent = Append(@, body)]
Received(body, page) ==
    [loop EXCEPT !.sent = Append(@, body), !.lens = Append(@, Len(page)),
                 !.seen = @ \cup {page[i] : i \in 1..Len(page)}]
Ended(l, how) == [l EXCEPT !.ended = how]

\* pull() and the part of _pull before its loop.
Pull ==
    /\ gen.name = "-"
    /\ calls < MaxCalls
    /\ \E found \in EventLookups :
        LET sc == GetSubCheckpoint
            names == IncludeEventNames(configuration)
            event_ids == IF names = <<>> THEN <<>> ELSE <<found>>
            body == IF sc = None THEN Body(calls + 1, event_ids, MispTags(configuration)) ELSE sc
        IN  /\ names = <<>> => found = "None"
            /\ calls' = calls + 1
            /\ IF names # <<>> /\ found = "raise"
               THEN /\ gen' = Raised(MISPPluginException)
                    /\ loop' = Ended(StartLoop("pull"), "error")
                    /\ UNCHANGED cycle
               ELSE /\ gen' = [NoGen EXCEPT !.name = "pull", !.pc = "fetch", !.body = body,
                                            !.event_ids = event_ids]
                    /\ loop' = StartLoop("pull")
                    /\ cycle' = IF sc = None THEN NoCycle ELSE [cycle EXCEPT !.start = sc]
    /\ runs' = {}
    /\ UNCHANGED <<log_prefix, configuration, retraction_batch, sub_checkpoint, misp_attrs>>
    /\ UNCHANGED varsHelper
    /\ UNCHANGED varsHE

\* One turn of the loop of _pull: the request, the page, the yield.  The
\* host keeps the checkpoint it is handed.
PullPage ==
    /\ gen.name = "pull"
    /\ gen.pc = "fetch"
    /\ gen.body.page <= MaxPage
    /\ \E ok \in BOOLEAN :
        LET body == gen.body
            asked == [page |-> body.page, got |-> Len(cycle.got)]
            page == Search(misp_attrs, body)
            last_page == LastPage(page, body)
            indicators == PullIndicators(page, ExcludeEvents(configuration))
        IN  IF ~ok
            THEN /\ gen' = Raised(MISPPluginException)
                 /\ loop' = Ended(Sent(body), "error")
                 /\ cycle' = [cycle EXCEPT !.asked = asked]
                 /\ UNCHANGED sub_checkpoint
            ELSE /\ gen' = [gen EXCEPT !.body = NextPage(body), !.pc = "yield",
                                       !.last_page = last_page,
                                       !.yielded = [NoYield EXCEPT
                                           !.indicators =
                                               IF HasSubCheckpoint THEN indicators
                                               ELSE gen.yielded.indicators \o indicators]]
                 /\ loop' = Received(body, page)
                 /\ cycle' = [cycle EXCEPT !.asked = asked, !.got = Append(@, body.page)]
                 /\ sub_checkpoint' = IF HasSubCheckpoint
                                      THEN PullCheckpoint(body, last_page)
                                      ELSE sub_checkpoint
    /\ UNCHANGED <<log_prefix, configuration, retraction_batch, misp_attrs, calls, runs>>
    /\ UNCHANGED varsHelper
    /\ UNCHANGED varsHE

\* The generator is resumed after a yield: it ends after the last page and
\* asks for the next page otherwise.
PullNext ==
    /\ gen.name = "pull"
    /\ gen.pc = "yield"
    /\ IF gen.last_page
       THEN gen' = [NoGen EXCEPT !.yielded = gen.yielded] /\ loop' = Ended(loop, "normal")
       ELSE gen' = [gen EXCEPT !.pc = "fetch"] /\ UNCHANGED loop
    /\ UNCHANGED <<log_prefix, configuration, retraction_batch, sub_checkpoint, misp_attrs,
                   calls, runs, cycle>>
    /\ UNCHANGED varsHelper
    /\ UNCHANGED varsHE

\* The host is interrupted between two pages and drops the generator.
PullInterrupted ==
    /\ gen.name = "pull"
    /\ gen.pc = "yield"
    /\ HasSubCheckpoint
    /\ ~gen.last_page
    /\ gen' = NoGen
    /\ loop' = Ended(loop, "interrupted")
    /\ UNCHANGED <<log_prefix, configuration, retraction_batch, sub_checkpoint, misp_attrs,
                   calls, runs, cycle>>
    /\ UNCHANGED varsHelper
    /\ UNCHANGED varsHE

(***************************************************************************)
(* MISP plugin: get_modified_indicators                                    *)
(***************************************************************************)
\* retraction_interval and isinstance(retraction_interval, int)
ValidInterval(retraction_interval) ==
    retraction_interval.type = "int" /\ retraction_interval.val # 0

\* The values of an attribute without the split of a domain|ip pair.
GmiAttributeUnsplit(attr, exclude_events) ==
    IF Excluded(attr, exclude_events) THEN {}
    ELSE IF attr.type \in ATTRIBUTE_TYPES THEN {attr.value}
    ELSE {}

\* Values get_modified_indicators finds on one page of attributes.
GmiAttribute(attr, exclude_events) ==
    IF Excluded(attr, exclude_events) THEN {}
    ELSE IF attr.type = "domain|ip"
         THEN {Split(attr.value)[i] : i \in {k \in 1..Len(Split(attr.value)) :
                                                 Split(attr.value)[k] # <<>>}}
    ELSE IF attr.type \in ATTRIBUTE_TYPES THEN {attr.value}
    ELSE {}

GmiIndicators(page, exclude_events) ==
    UNION {GmiAttribute(page[i], exclude_events) : i \in 1..Len(page)}

\* The source values still unmatched after a page.
UnmatchedEitherSide(source_unique_iocs, indicators) ==
    (source_unique_iocs \ indicators) \cup (indicators \ source_unique_iocs)
Unmatched(source_unique_iocs, indicators) == source_unique_iocs \ indicators

\* The loop of a batch ends with the last page or when no value is left.
GmiBreak(last_page, source_unique_iocs) == last_page \/ source_unique_iocs = {}

\* The first step of the generator: the log prefix and the interval check.
GetModifiedIndicators ==
    /\ gen.name = "-"
    /\ calls < MaxCalls
    /\ calls' = calls + 1
    /\ log_prefix' = Append(log_prefix, RETRACTION)
    /\ gen' = IF ValidInterval(configuration.retraction_interval)
              THEN [NoGen EXCEPT !.name = "gmi", !.pc = "batch", !.now = calls + 1]
              ELSE [NoGen EXCEPT !.name = "gmi", !.pc = "disabled", !.now = calls + 1,
                                 !.yielded = [NoYield EXCEPT !.flag = "True"]]
    /\ loop' = NoLoop
    /\ UNCHANGED <<configuration, retraction_batch, sub_checkpoint, misp_attrs, runs, cycle>>
    /\ UNCHANGED varsHelper
    /\ UNCHANGED varsHE

\* Resumed after the "not available" yield: int(retraction_interval).
GmiResumeDisabled ==
    /\ gen.name = "gmi"
    /\ gen.pc = "disabled"
    /\ gen' = IF configuration.retraction_interval.type = "NoneType"
              THEN Raised("TypeError")
              ELSE [gen EXCEPT !.pc = "batch"]
    /\ UNCHANGED <<log_prefix, configuration, retraction_batch, sub_checkpoint, misp_attrs,
                   calls, loop, runs, cycle>>
    /\ UNCHANGED varsHelper
    /\ UNCHANGED varsHE

\* The next list of source indicators: its values, the event lookups and the
\* query body for page 1.
GmiBatch ==
    /\ gen.name = "gmi"
    /\ gen.pc = "batch"
    /\ calls < MaxCalls
    /\ calls' = calls + 1
    /\ \E source_ioc_list \in SUBSET SourceValues, found \in EventLookups :
        LET names == IncludeEventNames(configuration)
            event_ids == IF names = <<>> THEN <<>> ELSE <<found>>
            source_unique_iocs == source_ioc_list
        IN  /\ names = <<>> => found = "None"
            /\ IF names # <<>> /\ found = "raise"
               THEN /\ gen' = Raised(MISPPluginException)
                    /\ loop' = Ended(StartLoop("gmi"), "error")
               ELSE /\ gen' = [gen EXCEPT !.pc = "fetch",
                                          !.body = Body(gen.now, event_ids, MispTags(configuration)),
                                          !.event_ids = event_ids,
                                          !.source = source_ioc_list,
                                          !.remaining = source_unique_iocs,
                                          !.last_page = FALSE,
                                          !.yielded = NoYield]
                    /\ loop' = StartLoop("gmi")
    /\ UNCHANGED <<log_prefix, configuration, retraction_batch, sub_checkpoint, misp_attrs,
                   runs, cycle>>
    /\ UNCHANGED varsHelper
    /\ UNCHANGED varsHE

\* One turn of the loop of a batch; the batch is yielded when the loop ends.
GmiPage ==
    /\ gen.name = "gmi"
    /\ gen.pc = "fetch"
    /\ gen.body.page <= MaxPage
    /\ \E ok \in BOOLEAN :
        LET body == gen.body
            page == Search(misp_attrs, body)
            indicators == GmiIndicators(page, ExcludeEvents(configuration))
            last_page == LastPage(page, body)
            source_unique_iocs == Unmatched(gen.remaining, indicators)
        IN  IF ~ok
            THEN /\ gen' = Raised(MISPPluginException)
                 /\ loop' = Ended(Sent(body), "error")
                 /\ UNCHANGED runs
            ELSE IF GmiBreak(last_page, source_unique_iocs)
            THEN /\ gen' = [NoGen EXCEPT !.name = "gmi", !.pc = "batch",
                                         !.now = gen.now,
                                         !.remaining = source_unique_iocs,
                                         !.yielded = [NoYield EXCEPT
                                                         !.values = source_unique_iocs,
                                                         !.flag = "False"]]
                 /\ loop' = [Ended(Received(body, page), "normal") EXCEPT
                                 !.emptied = source_unique_iocs = {}]
                 /\ runs' = runs \cup {[input |-> gen.source, output |-> source_unique_iocs,
                                         at |-> calls, eventid |-> body.eventid]}
            ELSE /\ gen' = [gen EXCEPT !.body = NextPage(body), !.last_page = last_page,
                                       !.remaining = source_unique_iocs]
                 /\ loop' = Received(body, page)
                 /\ UNCHANGED runs
    /\ UNCHANGED <<log_prefix, configuration, retraction_batch, sub_checkpoint, misp_attrs,
                   calls, cycle>>
    /\ UNCHANGED varsHelper
    /\ UNCHANGED varsHE

\* The source lists are exhausted, or the host stops iterating.
GmiStop ==
    /\ gen.name = "gmi"
    /\ gen.pc \in {"batch", "disabled"}
    /\ gen' = NoGen
    /\ UNCHANGED <<log_prefix, configuration, retraction_batch, sub_checkpoint, misp_attrs,
                   calls, loop, runs, cycle>>
    /\ UNCHANGED varsHelper
    /\ UNCHANGED varsHE

(***************************************************************************)
(* MISP plugin: retract_indicators                                         *)
(***************************************************************************)
InLogPrefix(word, prefix) == \E i \in 1..Len(prefix) : prefix[i] = word

\* The sharing configurations handed to retract_indicators, by event name.
ListActionDicts == {<<>>, <<"Event One">>}

\* Attribute ids of one page by event, whatever the value.
RECURSIVE AvailableAnyValue(_, _, _)
AvailableAnyValue(available, page, iocs) ==
    IF page = <<>> THEN available
    ELSE LET attr == Head(page)
         IN  AvailableAnyValue([available EXCEPT ![attr.event_id] = Append(@, attr.id)],
                               Tail(page), iocs)

\* Attribute ids of one page whose value is among the iocs, by event.
RECURSIVE Available(_, _, _)
Available(available, page, iocs) ==
    IF page = <<>> THEN available
    ELSE LET attr == Head(page)
         IN  Available(IF attr.value \in iocs
                       THEN [available EXCEPT ![attr.event_id] = Append(@, attr.id)]
                       ELSE available,
                       Tail(page), iocs)

Ids(ids) == {ids[i] : i \in 1..Len(ids)}

\* What a deleteSelected request comes to: a response with "success", a
\* response without it, MISPPluginException from the helper, or any other
\* exception.
DeleteOutcomes == {"success", "errors", MISPPluginException, "Exception"}

\* The order in which the events of attribute_ids are gone through.
EventOrder == <<"e1", "e2", "e3">>

\* _retract_attributes: the deleteSelected requests sent for a dict of
\* attribute ids by event, given what each request comes to, and whether an
\* exception leaves the function.
RECURSIVE RetractEvents(_, _, _)
RetractEvents(events, attribute_ids, outcome) ==
    IF events = <<>> THEN [requests |-> <<>>, retracted |-> {}, raised |-> FALSE]
    ELSE LET event_id == Head(events)
             attributes == attribute_ids[event_id]
             rest == RetractEvents(Tail(events), attribute_ids, outcome)
         IN  IF attributes = <<>> THEN rest
             ELSE [rest EXCEPT
                      !.requests = <<[event_id |-> event_id, id |-> attributes]>> \o @,
                      !.retracted = IF outcome[event_id] = "success"
                                    THEN @ \cup {event_id} ELSE @]

\* The loop over the events left by the first request that fails.
RECURSIVE RetractEventsUntilFailure(_, _, _)
RetractEventsUntilFailure(events, attribute_ids, outcome) ==
    IF events = <<>> THEN [requests |-> <<>>, retracted |-> {}, raised |-> FALSE]
    ELSE LET event_id == Head(events)
             attributes == attribute_ids[event_id]
             rest == RetractEventsUntilFailure(Tail(events), attribute_ids, outcome)
             request == <<[event_id |-> event_id, id |-> attributes]>>
         IN  IF attributes = <<>> THEN rest
             ELSE IF outcome[event_id] \in {"success", "errors"}
             THEN [rest EXCEPT
                      !.requests = request \o @,
                      !.retracted = IF outcome[event_id] = "success"
                                    THEN @ \cup {event_id} ELSE @]
             ELSE [requests |-> request, retracted |-> {}, raised |-> TRUE]

RetractAttributesUntilFailure(attribute_ids, outcome) ==
    RetractEventsUntilFailure(EventOrder, attribute_ids, outcome)

RetractAttributes(attribute_ids, outcome) ==
    RetractEvents(EventOrder, attribute_ids, outcome)

\* _retract_attributes is called after the loop over the pages, not in it.
RetractedEveryPage(last_page, attribute_ids, outcome) ==
    RetractAttributes(attribute_ids, outcome)
Retracted(last_page, attribute_ids, outcome) ==
    IF last_page THEN RetractAttributes(attribute_ids, outcome)
    ELSE [requests |-> <<>>, retracted |-> {}, raised |-> FALSE]

\* attributes/deleteSelected on the server, for the events it succeeds on.
RECURSIVE DeleteSelected(_, _, _)
DeleteSelected(attrs, available, events) ==
    IF attrs = <<>> THEN <<>>
    ELSE LET attr == Head(attrs)
             rest == DeleteSelected(Tail(attrs), available, events)
         IN  IF attr.event_id \in events /\ attr.id \in Ids(available[attr.event_id])
             THEN rest
             ELSE <<attr>> \o rest

\* The events of the sharing configurations are looked up; the generator
\* goes on to the batches when every lookup gave an id.
RetractLookups(list_action_dict, found, now) ==
    LET event_ids == IF list_action_dict = <<>> THEN <<>> ELSE <<found>>
    IN  IF list_action_dict # <<>> /\ found = "raise" THEN Raised(MISPPluginException)
        ELSE IF Len(event_ids) = 0 THEN Raised(MISPPluginException)
        ELSE IF \E i \in 1..Len(event_ids) : event_ids[i] = "None"
        THEN Raised("TypeError")
        ELSE [NoGen EXCEPT !.name = "retract", !.pc = "batch", !.now = now,
                           !.event_ids = event_ids]

\* What the lookups gave, one entry for each sharing configuration.
Looked(list_action_dict, found) ==
    [NoLoop EXCEPT !.looked = IF list_action_dict = <<>> THEN <<>> ELSE <<found>>]

\* The first step of the generator, up to the loop over the batches.
RetractIndicators ==
    /\ gen.name = "-"
    /\ calls < MaxCalls
    /\ calls' = calls + 1
    /\ log_prefix' = IF InLogPrefix(RETRACTION, log_prefix) THEN log_prefix
                     ELSE Append(log_prefix, RETRACTION)
    /\ \E list_action_dict \in ListActionDicts, found \in EventLookups :
        /\ list_action_dict = <<>> => found = "None"
        /\ IF ~ValidInterval(configuration.retraction_interval)
           THEN /\ gen' = [NoGen EXCEPT !.name = "retract", !.pc = "disabled",
                                        !.now = calls + 1,
                                        !.yielded = [NoYield EXCEPT !.flag = "disabled"]]
                /\ loop' = NoLoop
           ELSE /\ gen' = RetractLookups(list_action_dict, found, calls + 1)
                /\ loop' = Looked(list_action_dict, found)
    /\ runs' = {}
    /\ UNCHANGED <<configuration, retraction_batch, sub_checkpoint, misp_attrs, cycle>>
    /\ UNCHANGED varsHelper
    /\ UNCHANGED varsHE

\* Resumed after the "not available" yield: int(retraction_interval), then
\* the lookups.
RetractResumeDisabled ==
    /\ gen.name = "retract"
    /\ gen.pc = "disabled"
    /\ \E list_action_dict \in ListActionDicts, found \in EventLookups :
        /\ list_action_dict = <<>> => found = "None"
        /\ IF configuration.retraction_interval.type = "NoneType"
           THEN gen' = Raised("TypeError") /\ UNCHANGED loop
           ELSE /\ gen' = RetractLookups(list_action_dict, found, gen.now)
                /\ loop' = Looked(list_action_dict, found)
    /\ UNCHANGED <<log_prefix, configuration, retraction_batch, sub_checkpoint, misp_attrs,
                   calls, runs, cycle>>
    /\ UNCHANGED varsHelper
    /\ UNCHANGED varsHE

\* The next batch of retracted indicators and the query body for page 1.
RetractBatch ==
    /\ gen.name = "retract"
    /\ gen.pc = "batch"
    /\ calls < MaxCalls
    /\ calls' = calls + 1
    /\ \E iocs \in SUBSET SourceValues :
        gen' = [gen EXCEPT !.pc = "fetch",
                           !.body = Body(gen.now, gen.event_ids, <<>>),
                           !.source = iocs,
                           !.available = NoGen.available,
                           !.last_page = FALSE,
                           !.yielded = NoYield]
    /\ loop' = StartLoop("retract")
    /\ UNCHANGED <<log_prefix, configuration, retraction_batch, sub_checkpoint, misp_attrs,
                   runs, cycle>>
    /\ UNCHANGED varsHelper
    /\ UNCHANGED varsHE

\* One turn of the loop of a batch.  After the last page the attributes
\* found are deleted event by event, which the server may refuse, and the
\* batch is yielded.
RetractPage ==
    /\ gen.name = "retract"
    /\ gen.pc = "fetch"
    /\ gen.body.page <= MaxPage
    /\ \E ok \in BOOLEAN :
        LET body == gen.body
            page == Search(misp_attrs, body)
            available == Available(gen.available, page, gen.source)
            last_page == LastPage(page, body)
        IN  IF ~ok
            THEN /\ gen' = Raised(MISPPluginException)
                 /\ loop' = Ended(Sent(body), "error")
                 /\ UNCHANGED misp_attrs
            ELSE \E outcome \in [{e \in EventIds : available[e] # <<>>} -> DeleteOutcomes] :
                 LET done == Retracted(last_page, available, outcome)
                 IN  /\ misp_attrs' = DeleteSelected(misp_attrs, available, done.retracted)
                     /\ IF last_page
                        THEN /\ gen' = [NoGen EXCEPT
                                           !.name = "retract", !.pc = "batch",
                                           !.now = gen.now,
                                           !.event_ids = gen.event_ids,
                                           !.yielded = [NoYield EXCEPT !.flag = "success"]]
                             /\ loop' = [Ended(Received(body, page), "normal") EXCEPT
                                             !.deletes = @ \o done.requests]
                        ELSE /\ gen' = [gen EXCEPT !.body = NextPage(body),
                                                   !.available = available]
                             /\ loop' = [Received(body, page) EXCEPT
                                             !.deletes = @ \o done.requests]
    /\ UNCHANGED <<log_prefix, configuration, retraction_batch, sub_checkpoint, calls, runs,
                   cycle>>
    /\ UNCHANGED varsHelper
    /\ UNCHANGED varsHE

\* The batches are exhausted, or the host stops iterating.
RetractStop ==
    /\ gen.name = "retract"
    /\ gen.pc \in {"batch", "disabled"}
    /\ gen' = NoGen
    /\ UNCHANGED <<log_prefix, configuration, retraction_batch, sub_checkpoint, misp_attrs,
                   calls, loop, runs, cycle>>
    /\ UNCHANGED varsHelper
    /\ UNCHANGED varsHE

(***************************************************************************)
(* A sequence of operations on one MISPPlugin instance                     *)
(***************************************************************************)
InitMisp ==
    /\ IdleHelper
    /\ he = NoHE
    /\ app = NoApp
    /\ log_prefix = InitialLogPrefix
    /\ configuration \in Configurations
    /\ retraction_batch = RETRACTION_BATCH
    /\ sub_checkpoint \in {Absent, None}
    /\ misp_attrs \in {attrs \in SeqsUpTo(Attributes, MaxAttrs) : Distinct(attrs)}
    /\ gen = NoGen
    /\ calls = 0
    /\ loop = NoLoop
    /\ runs = {}
    /\ cycle = NoCycle

NextMisp ==
    \/ Pull
    \/ PullPage
    \/ PullNext
    \/ PullInterrupted
    \/ GetModifiedIndicators
    \/ GmiResumeDisabled
    \/ GmiBatch
    \/ GmiPage
    \/ GmiStop
    \/ RetractIndicators
    \/ RetractResumeDisabled
    \/ RetractBatch
    \/ RetractPage
    \/ RetractStop

SpecMisp == InitMisp /\ [][NextMisp]_vars

(***************************************************************************)
(* Properties of the MISP plugin (SpecMisp)                                *)
(***************************************************************************)
Last(q) == q[Len(q)]

\* No request follows a page shorter than the limit.
ShortPageIsLast ==
    \A i \in 1..Len(loop.lens) : loop.lens[i] < loop.sent[i].limit => Len(loop.sent) = i

\* Each request after the first asks for the page after the one before.
NextPageAsked ==
    \A i \in 1..(Len(loop.sent) - 1) : loop.sent[i + 1] = NextPage(loop.sent[i])

LastPageShort == loop.lens # <<>> /\ Last(loop.lens) < Last(loop.sent).limit

\* C7 as stated: in each pagination loop a page shorter than the limit is
\* the last page and no request follows it, and a page of exactly limit
\* attributes is followed by a request for the next page number, so a loop
\* only ends after a short page.
PaginationEndsOnlyOnShortPage ==
    /\ ShortPageIsLast
    /\ NextPageAsked
    /\ loop.ended = "normal" => LastPageShort

\* C7: in each pagination loop a page shorter than the limit is the last
\* page and no request follows it; a page of exactly limit attributes is
\* followed by a request for the next page number, unless the loop is the one
\* of get_modified_indicators and no source value is left unmatched.
PaginationEndsOnShortPage ==
    /\ ShortPageIsLast
    /\ NextPageAsked
    /\ loop.ended = "normal" => LastPageShort \/ (loop.op = "gmi" /\ loop.emptied)

FullPageThenShortPage ==
    /\ loop.op = "retract"
    /\ loop.ended = "normal"
    /\ Len(loop.sent) = 2
    /\ loop.lens[1] = PULL_PAGE_SIZE
    /\ loop.lens[2] = 1

\* C8: the filtering of get_modified_indicators is idempotent: with the
\* configuration and the MISP pages fixed (the same attributes on the
\* server, selected with the same eventid filter), two runs on the same
\* input give the same result, and a run on the result of another gives
\* that result again.
FilteringIdempotent ==
    \A r1, r2 \in runs :
        r1.eventid = r2.eventid =>
            /\ r1.input = r2.input => r1.output = r2.output
            /\ r2.input = r1.output => r2.output = r1.output

FilteredTwice ==
    \E r1, r2 \in runs :
        /\ r1.at # r2.at
        /\ r1.eventid = r2.eventid
        /\ r2.input \in {r1.input, r1.output}
        /\ r1.output # {}
        /\ r1.output # r1.input

\* C9 as stated: no operation changes the instance fields that later calls
\* read: log_prefix, configuration and retraction_batch.
InstanceFieldsUnchanged ==
    [][/\ log_prefix' = log_prefix
       /\ configuration' = configuration
       /\ retraction_batch' = retraction_batch]_vars

\* C10: with the host keeping the checkpoint, the checkpoint yielded with
\* page k is the query body with page k + 1, or None with the last page; a
\* pull started from a stored checkpoint sends that body first; and each
\* request asks for the page after the last one yielded, so that every page
\* is fetched and none is fetched again once yielded.
CheckpointResumesAtNextPage ==
    /\ (HasSubCheckpoint /\ gen.name = "pull" /\ gen.pc = "yield") =>
           sub_checkpoint = IF LastPageShort THEN None ELSE NextPage(Last(loop.sent))
    /\ (HasSubCheckpoint /\ loop.op = "pull" /\ cycle.start # None /\ loop.sent # <<>>) =>
           loop.sent[1] = cycle.start
    /\ cycle.asked # NoAsked => cycle.asked.page = cycle.asked.got + 1
    /\ \A i \in 1..Len(cycle.got) : cycle.got[i] = i

ResumedFromCheckpoint ==
    /\ loop.op = "pull"
    /\ cycle.start # None
    /\ cycle.start.page = 2
    /\ loop.sent = <<cycle.start>>
    /\ cycle.got = <<1, 2>>
    /\ sub_checkpoint = None


(***************************************************************************)
(* MISP plugin: push, and sharing next to pulling and retraction           *)
(***************************************************************************)
\* The lists of indicators handed to push, by value; all are MD5 hashes.
IndicatorLists == {<<>>, <<<<"v1">>>>, <<<<"v2">>>>, <<<<"v1">>, <<"v2">>>>}

\* plugin_name: the name of the source plugin; with None, the default, the
\* source label tag is left out.
PluginNames == {"CTE"}

\* default_tags_to_send: the source label tag is added when a plugin_name
\* is given and the label has at most 255 characters.
DefaultTagsToSend(plugin_name) ==
    LET source_label_tag == SHARING_TAG_CONSTANT \o " | " \o plugin_name
    IN  <<DEFAULT_IOC_TAG>> \o
        (IF plugin_name # "None" /\ Len(source_label_tag) <= 255
         THEN <<source_label_tag>> ELSE <<>>)

\* The attribute push makes of an indicator, as the server stores it in an
\* event under an id of its own.
PushedAttribute(ioc, tags, event_id, event_name) ==
    [id |-> "-", value |-> ioc, type |-> "md5",
     event_id |-> event_id, info |-> event_name, first_seen |-> "None",
     Tag |-> {tags[j] : j \in 1..Len(tags)}, origin |-> "push"]

\* The first n ids, from the one numbered k on, that no attribute has.
RECURSIVE FreeIds(_, _, _)
FreeIds(used, k, n) ==
    IF n = 0 THEN <<>>
    ELSE IF ("p" \o ToString(k)) \in used THEN FreeIds(used, k + 1, n)
    ELSE <<"p" \o ToString(k)>> \o FreeIds(used, k + 1, n - 1)

\* The attributes in one batch, however many there are.
BatchesWhole(n, first) ==
    IF first > n THEN <<>> ELSE <<[first |-> first, last |-> n]>>

\* The attributes in batches of BATCH_SIZE, each with the index of its
\* first attribute.
RECURSIVE Batches(_, _)
Batches(n, first) ==
    IF first > n THEN <<>>
    ELSE LET last == IF first + BATCH_SIZE - 1 < n THEN first + BATCH_SIZE - 1 ELSE n
         IN  <<[first |-> first, last |-> last]>> \o Batches(n, last + 1)

\* The loop over the batches: events/edit when the event is known,
\* events/add and another lookup otherwise.  flags tells which requests
\* succeed and founds what the lookups give: "id" an event id, "None"
\* nothing, "raise" an exception that is not MISPPluginException.
RECURSIVE PushBatches(_, _, _, _, _, _, _)
PushBatches(batches, k, exists, event_id, created, flags, founds) ==
    IF k > Len(batches)
    THEN [requests |-> <<>>, stored |-> <<>>, raised |-> FALSE,
          success_count |-> 0, failed_count |-> 0]
    ELSE LET b == batches[k]
             size == b.last - b.first + 1
         IN  IF exists
             THEN LET rest == PushBatches(batches, k + 1, exists, event_id, created,
                                          flags, founds)
                  IN  [rest EXCEPT
                          !.requests = <<[url |-> "events/edit", event_id |-> event_id,
                                          first |-> b.first, last |-> b.last,
                                          flag |-> flags[k]]>> \o @,
                          !.success_count = IF flags[k] THEN @ + size ELSE @,
                          !.failed_count = IF flags[k] THEN @ ELSE @ + size,
                          !.stored = (IF flags[k]
                                      THEN <<[event_id |-> event_id, first |-> b.first,
                                              last |-> b.last]>>
                                      ELSE <<>>) \o @]
             ELSE LET made == created \/ flags[k]
                      found == IF founds[k] # "id" THEN founds[k]
                               ELSE IF made THEN "e3" ELSE "e1"
                      request == <<[url |-> "events/add", event_id |-> "None",
                                    first |-> b.first, last |-> b.last,
                                    flag |-> flags[k]]>>
                      stored == IF flags[k]
                                THEN <<[event_id |-> "e3", first |-> b.first,
                                        last |-> b.last]>>
                                ELSE <<>>
                  IN  IF found = "raise"
                      THEN [requests |-> request, stored |-> stored, raised |-> TRUE,
                            success_count |-> IF flags[k] THEN size ELSE 0,
                            failed_count |-> IF flags[k] THEN 0 ELSE size]
                      ELSE LET rest == PushBatches(batches, k + 1, found # "None", found,
                                                   made, flags, founds)
                           IN  [rest EXCEPT
                                   !.requests = request \o @,
                                   !.stored = stored \o @,
                                   !.success_count = IF flags[k] THEN @ + size ELSE @,
                                   !.failed_count = IF flags[k] THEN @ ELSE @ + size]

\* The attributes the server stores for the batches it accepted.
RECURSIVE Stored(_, _, _, _)
Stored(stored, indicators, tags, event_name) ==
    IF stored = <<>> THEN <<>>
    ELSE LET b == Head(stored)
         IN  [i \in 1..(b.last - b.first + 1) |->
                 PushedAttribute(indicators[b.first + i - 1], tags, b.event_id, event_name)]
             \o Stored(Tail(stored), indicators, tags, event_name)

WithIds(attrs, stored) ==
    LET ids == FreeIds({attrs[i].id : i \in 1..Len(attrs)}, 1, Len(stored))
    IN  attrs \o [i \in 1..Len(stored) |-> [stored[i] EXCEPT !.id = ids[i]]]

\* push: the action value, the default tags, the event lookup, the batches.
\* The server holds MaxAttrs attributes at most.
Push ==
    /\ gen.name = "-"
    /\ calls < MaxCalls
    /\ calls' = calls + 1
    /\ \E action_value \in {"event", "other"}, tags_found \in BOOLEAN,
          found \in EventLookups :
        IF action_value # "event" \/ ~tags_found \/ found = "raise"
        THEN /\ gen' = Raised(MISPPluginException)
             /\ loop' = Ended(StartLoop("push"), "error")
             /\ UNCHANGED misp_attrs
        ELSE \E indicators \in IndicatorLists, plugin_name \in PluginNames :
             LET tags == DefaultTagsToSend(plugin_name)
                 batches == Batches(Len(indicators), 1)
                 event_name == "Event One"
             IN  /\ Len(misp_attrs) + Len(indicators) <= MaxAttrs
                 /\ \E flags \in [1..Len(batches) -> BOOLEAN],
                       founds \in [1..Len(batches) ->
                                      IF found = "None" THEN {"id", "None", "raise"}
                                      ELSE {"id"}] :
                    LET done == PushBatches(batches, 1, found # "None", found, FALSE,
                                            flags, founds)
                        sent == [i \in 1..Len(done.requests) |->
                                    [url |-> done.requests[i].url,
                                     event_id |-> done.requests[i].event_id,
                                     Attribute |->
                                         [j \in 1..(done.requests[i].last
                                                     - done.requests[i].first + 1) |->
                                             [value |-> indicators[done.requests[i].first
                                                                   + j - 1],
                                              type |-> "md5",
                                              Tag |-> tags]]]]
                    IN  /\ gen' = IF done.raised THEN Raised(MISPPluginException)
                                  ELSE NoGen
                        /\ loop' = [Ended(StartLoop("push"),
                                          IF done.raised THEN "error" ELSE "normal")
                                    EXCEPT !.sent = sent]
                        /\ misp_attrs' = WithIds(misp_attrs,
                               Stored(done.stored, indicators, tags, event_name))
    /\ runs' = {}
    /\ UNCHANGED <<log_prefix, configuration, retraction_batch, sub_checkpoint, cycle>>
    /\ UNCHANGED varsHelper
    /\ UNCHANGED varsHE

\* The plugin shares to an event other users write to as well: the
\* server holds at most two attributes of theirs at first, and the host
\* keeps checkpoints.
InitShare ==
    /\ IdleHelper
    /\ he = NoHE
    /\ app = NoApp
    /\ log_prefix = InitialLogPrefix
    /\ configuration \in [retraction_interval : {IntValue(7)}, event_name : {"Excluded"},
                          include_event_name : {""}, tags : {"", "osint"}]
    /\ retraction_batch = RETRACTION_BATCH
    /\ sub_checkpoint = None
    /\ misp_attrs \in {attrs \in SeqsUpTo({a \in Attributes : a.info = "Event One"}, 2) :
                          Distinct(attrs)}
    /\ gen = NoGen
    /\ calls = 0
    /\ loop = NoLoop
    /\ runs = {}
    /\ cycle = NoCycle

\* retraction_interval is a positive int here, so neither generator yields
\* "not available" and there is no resumption after it.
NextShare ==
    \/ Push
    \/ Pull
    \/ PullPage
    \/ PullNext
    \/ PullInterrupted
    \/ GetModifiedIndicators
    \/ GmiBatch
    \/ GmiPage
    \/ GmiStop
    \/ RetractIndicators
    \/ RetractBatch
    \/ RetractPage
    \/ RetractStop

SpecShare == InitShare /\ [][NextShare]_vars

\* The attribute ids of the deleteSelected requests of the current batch,
\* each with the event of its request.
DeleteRequested ==
    UNION {{[event_id |-> loop.deletes[i].event_id, id |-> loop.deletes[i].id[j]] :
               j \in 1..Len(loop.deletes[i].id)} : i \in 1..Len(loop.deletes)}

\* C12: retract_indicators removes only what the plugin shared: every
\* attribute id sent in a deleteSelected request is the id of an attribute
\* written by push, carrying DEFAULT_IOC_TAG; no attribute of another origin
\* is asked to be deleted.
RetractsOnlyShared ==
    loop.op = "retract" =>
        \A d \in DeleteRequested :
            \A a \in loop.seen :
                a.id = d.id => a.origin = "push" /\ DEFAULT_IOC_TAG \in a.Tag

\* The attributes of the requests push sent.
PushSent ==
    UNION {{loop.sent[i].Attribute[j] : j \in 1..Len(loop.sent[i].Attribute)} :
              i \in 1..Len(loop.sent)}

\* C20: every attribute sent by push carries DEFAULT_IOC_TAG, every
\* restSearch body of _pull and get_modified_indicators holds the negated
\* filter of that tag, with user tags and when the body is a checkpoint,
\* and no page they receive holds an attribute written by push.
PushedNeverPulled ==
    /\ loop.op = "push" =>
           \A a \in PushSent : \E t \in 1..Len(a.Tag) : a.Tag[t] = DEFAULT_IOC_TAG
    /\ \A i \in 1..Len(misp_attrs) :
           misp_attrs[i].origin = "push" => DEFAULT_IOC_TAG \in misp_attrs[i].Tag
    /\ loop.op \in {"pull", "gmi"} =>
           /\ \A i \in 1..Len(loop.sent) :
                  \E t \in 1..Len(loop.sent[i].tags) :
                      loop.sent[i].tags[t] = Not(DEFAULT_IOC_TAG)
           /\ \A a \in loop.seen : a.origin # "push"
    /\ gen.name \in {"pull", "gmi"} /\ gen.pc = "fetch" =>
           \E t \in 1..Len(gen.body.tags) : gen.body.tags[t] = Not(DEFAULT_IOC_TAG)

\* A pull resumed from the checkpoint of a full page after push wrote an
\* attribute: the page asked for is past the first, and the server, which
\* holds the pushed attribute, returned none.
ResumedPullSkipsPushed ==
    /\ loop.op = "pull"
    /\ loop.lens # <<>>
    /\ loop.sent[1].page > 1
    /\ \E i \in 1..Len(misp_attrs) : misp_attrs[i].origin = "push"
    /\ loop.seen = {}

(***************************************************************************)
(* push on its own (SpecPush): one call, with what each request to MISP    *)
(* comes to.                                                               *)
(***************************************************************************)
RECURSIVE Repeat(_, _)
Repeat(word, n) == IF n = 0 THEN "" ELSE word \o Repeat(word, n - 1)

\* plugin_name as push may get it: None, a short name, and a name that
\* makes the source label tag longer than 255 characters.
PushPluginNames == {"None", "CTE", Repeat("x", 250)}

\* The lists of indicators of one call: up to three, so up to three batches.
PushIndicatorLists == IndicatorLists \cup {<<<<"v1">>, <<"v2">>, <<"v1">>>>}

\* What the requests for one default tag come to: tags/search finds it;
\* it is not found and tags/add creates it; it is not found and the answer
\* of tags/add does not hold it; or the helper raises MISPPluginException.
TagOutcomes == {"found", "created", "failed", "raise"}

NoRequest == [url |-> "-", event_id |-> "None", tag |-> "-", Attribute |-> <<>>,
              flag |-> FALSE]

\* The loop over default_tags_to_send with a tag that cannot be created
\* passed over.
RECURSIVE PushTagsNoRaise(_, _, _)
PushTagsNoRaise(tags, k, outcomes) ==
    IF k > Len(tags) THEN [requests |-> <<>>, raised |-> FALSE]
    ELSE LET search == [NoRequest EXCEPT !.url = "tags/search", !.tag = tags[k],
                                         !.flag = outcomes[k] = "found"]
             add == [NoRequest EXCEPT !.url = "tags/add", !.tag = tags[k],
                                      !.flag = outcomes[k] = "created"]
             rest == PushTagsNoRaise(tags, k + 1, outcomes)
         IN  IF outcomes[k] = "raise" THEN [requests |-> <<search>>, raised |-> TRUE]
             ELSE IF outcomes[k] = "found"
             THEN [rest EXCEPT !.requests = <<search>> \o @]
             ELSE [rest EXCEPT !.requests = <<search, add>> \o @]

\* The loop over default_tags_to_send: _is_tag_exists, then tags/add for a
\* tag that is not found; MISPPluginException when it is not created.
RECURSIVE PushTags(_, _, _)
PushTags(tags, k, outcomes) ==
    IF k > Len(tags) THEN [requests |-> <<>>, raised |-> FALSE]
    ELSE LET search == [NoRequest EXCEPT !.url = "tags/search", !.tag = tags[k],
                                         !.flag = outcomes[k] = "found"]
             add == [NoRequest EXCEPT !.url = "tags/add", !.tag = tags[k],
                                      !.flag = outcomes[k] = "created"]
             rest == PushTags(tags, k + 1, outcomes)
         IN  IF outcomes[k] = "raise" THEN [requests |-> <<search>>, raised |-> TRUE]
             ELSE IF outcomes[k] = "found"
             THEN [rest EXCEPT !.requests = <<search>> \o @]
             ELSE IF outcomes[k] = "created"
             THEN [rest EXCEPT !.requests = <<search, add>> \o @]
             ELSE [requests |-> <<search, add>>, raised |-> TRUE]

\* if action_value != "event"
ActionRejectedNever(action_value) == FALSE
ActionRejected(action_value) == action_value # "event"

NoPushResult == [requests |-> <<>>, looked |-> FALSE, raised |-> "-", returned |-> FALSE,
                 success_count |-> 0, failed_count |-> 0, success |-> FALSE]

\* push(indicators, action_dict, plugin_name=plugin_name): the requests it
\* sends for tags and events, the exception it raises or the PushResult it
\* returns.
PushCall(action_value, plugin_name, indicators, tag_outcomes, found, flags, founds) ==
    IF ActionRejected(action_value)
    THEN [NoPushResult EXCEPT !.raised = MISPPluginException]
    ELSE LET default_tags_to_send == DefaultTagsToSend(plugin_name)
             tagged == PushTags(default_tags_to_send, 1, tag_outcomes)
             batches == Batches(Len(indicators), 1)
             done == PushBatches(batches, 1, found # "None", found, FALSE, flags, founds)
             sent == [i \in 1..Len(done.requests) |->
                         [NoRequest EXCEPT
                             !.url = done.requests[i].url,
                             !.event_id = done.requests[i].event_id,
                             !.flag = done.requests[i].flag,
                             !.Attribute =
                                 [j \in 1..(done.requests[i].last
                                             - done.requests[i].first + 1) |->
                                     [value |-> indicators[done.requests[i].first + j - 1],
                                      type |-> "md5",
                                      Tag |-> default_tags_to_send]]]]
         IN  IF tagged.raised
             THEN [NoPushResult EXCEPT !.requests = tagged.requests,
                                       !.raised = MISPPluginException]
             ELSE IF found = "raise"
             THEN [NoPushResult EXCEPT !.requests = tagged.requests, !.looked = TRUE,
                                       !.raised = MISPPluginException]
             ELSE [requests |-> tagged.requests \o sent,
                   looked |-> TRUE,
                   raised |-> IF done.raised THEN MISPPluginException ELSE "-",
                   returned |-> ~done.raised,
                   success_count |-> done.success_count,
                   failed_count |-> done.failed_count,
                   success |-> ~done.raised]

\* The calls of push: a call with another action value, and calls with
\* no action value, and calls with the action value "event", with one
\* outcome for each default tag, for the first lookup of the event, and
\* for the request and the lookup of each batch.
InitPush ==
    /\ IdleHelper
    /\ IdleMisp
    /\ he = NoHE
    /\ \E action_value \in {"event", "other", "None"}, plugin_name \in PushPluginNames,
          indicators \in PushIndicatorLists, found \in EventLookups :
        LET n == Len(Batches(Len(indicators), 1))
            t == Len(DefaultTagsToSend(plugin_name))
        IN  \E tag_outcomes \in [1..t -> TagOutcomes], flags \in [1..n -> BOOLEAN],
               founds \in [1..n -> {"id", "None", "raise"}] :
                /\ action_value # "event" =>
                       /\ found = "None"
                       /\ \A i \in 1..n : flags[i] /\ founds[i] = "id"
                /\ app = [fn |-> "push", action_value |-> action_value,
                          plugin_name |-> plugin_name, indicators |-> indicators,
                          tag_outcomes |-> tag_outcomes, found |-> found,
                          flags |-> flags, founds |-> founds,
                          called |-> FALSE, result |-> NoPushResult]

PushApply ==
    /\ app.fn = "push"
    /\ ~app.called
    /\ app' = [app EXCEPT
                   !.called = TRUE,
                   !.result = PushCall(app.action_value, app.plugin_name, app.indicators,
                                       app.tag_outcomes, app.found, app.flags, app.founds)]
    /\ UNCHANGED he
    /\ UNCHANGED varsHelper
    /\ UNCHANGED varsMisp

NextPush == PushApply

SpecPush == InitPush /\ [][NextPush]_vars

\* The events/add and events/edit requests of the call, in order.
RECURSIVE EventRequests(_)
EventRequests(requests) ==
    IF requests = <<>> THEN <<>>
    ELSE (IF Head(requests).url \in {"events/add", "events/edit"}
          THEN <<Head(requests)>> ELSE <<>>) \o EventRequests(Tail(requests))

PushCalled == app.fn = "push" /\ app.called

\* C21: one push call creates at most one event: at most one events/add
\* request succeeds, and every request after a successful events/add is
\* an events/edit, whatever the lookups of the event give.
OneEventPerPush ==
    PushCalled =>
        LET q == EventRequests(app.result.requests)
        IN  /\ Cardinality({i \in 1..Len(q) : q[i].url = "events/add" /\ q[i].flag}) <= 1
            /\ \A i, j \in 1..Len(q) :
                   i < j /\ q[i].url = "events/add" /\ q[i].flag => q[j].url = "events/edit"

(***************************************************************************)
(* _pull applied to the pages of one listing                               *)
(***************************************************************************)
\* Attributes of a listing: next to those of Attributes, an empty value, an
\* empty component, values Indicator() rejects and a first_seen that is not
\* an ISO 8601 date.
PageAttributes ==
    Attributes \cup
    { [id |-> "5", value |-> <<>>, type |-> "md5", event_id |-> "e1", info |-> "Event One",
          first_seen |-> "None", Tag |-> {}, origin |-> "misp"],
      [id |-> "6", value |-> <<"|", "v3">>, type |-> "domain|ip", event_id |-> "e1",
          info |-> "Event One", first_seen |-> "iso", Tag |-> {}, origin |-> "misp"],
      [id |-> "7", value |-> <<"bad">>, type |-> "sha256", event_id |-> "e1",
          info |-> "Event One", first_seen |-> "None", Tag |-> {}, origin |-> "misp"],
      [id |-> "8", value |-> <<"v2", "|", "bad", "|", "v3">>, type |-> "domain|ip",
          event_id |-> "e1", info |-> "Event One", first_seen |-> "None", Tag |-> {}, origin |-> "misp"],
      [id |-> "9", value |-> <<"v1">>, type |-> "url", event_id |-> "e1",
          info |-> "Event One", first_seen |-> "bad", Tag |-> {}, origin |-> "misp"] }

\* Before the first page: nothing yielded, total_ioc_count = 0.
InitPullPages ==
    /\ IdleHelper
    /\ IdleMisp
    /\ he = NoHE
    /\ app \in [fn : {"_pull"},
                listing : {q \in SeqsUpTo(PageAttributes, MaxAttrs) : Distinct(q)},
                exclude_events : {{"Excluded"}}, page : {1}, made : {<<>>},
                yielded : {<<>>}, total_ioc_count : {0}, last_page : {FALSE}]

\* One turn of the loop of _pull over the response it is given: the
\* indicators made of each attribute, the list yielded, total_ioc_count.
PullOnePage ==
    /\ app.fn = "_pull"
    /\ ~app.last_page
    /\ LET body == [Body(0, <<>>, <<>>) EXCEPT !.page = app.page]
           page == RestSearch(app.listing, body.page, body.limit)
           indicators == PullIndicators(page, app.exclude_events)
       IN  app' = [app EXCEPT
                       !.made = Append(@, [i \in 1..Len(page) |->
                                              PullAttribute(page[i], app.exclude_events)]),
                       !.yielded = Append(@, indicators),
                       !.total_ioc_count = @ + Len(indicators),
                       !.page = @ + 1,
                       !.last_page = LastPage(page, body)]
    /\ UNCHANGED he
    /\ UNCHANGED varsHelper
    /\ UNCHANGED varsMisp

NextPullPages == PullOnePage

SpecPullPages == InitPullPages /\ [][NextPullPages]_vars

RECURSIVE Concat(_)
Concat(seqs) == IF seqs = <<>> THEN <<>> ELSE Head(seqs) \o Concat(Tail(seqs))

RECURSIVE SumLen(_)
SumLen(seqs) == IF seqs = <<>> THEN 0 ELSE Len(Head(seqs)) + SumLen(Tail(seqs))

\* The attribute passes the three tests that come before an indicator is made.
Accepted(attr, exclude_events) ==
    /\ ~Excluded(attr, exclude_events)
    /\ attr.type \in ATTRIBUTE_TYPES
    /\ attr.value # <<>>

\* Making the indicators of the attribute raises inside the inner try.
CreationRaises(attr) == FromIsoFormatRaises(attr) \/ Rejected(attr.value)

IsPrefix(q, r) == Len(q) <= Len(r) /\ q = SubSeq(r, 1, Len(q))

\* The list yielded for each page is the indicators of its attributes in
\* attribute order, and total_ioc_count counts the indicators yielded.
YieldedInOrder ==
    /\ \A k \in 1..Len(app.yielded) : app.yielded[k] = Concat(app.made[k])
    /\ app.total_ioc_count = SumLen(app.yielded)

\* C11 as stated: every attribute of a page maps to zero indicators when
\* its event is excluded, its type is not in ATTRIBUTE_TYPES or its value is
\* empty, to one indicator per non-empty component when its type is
\* domain|ip, and to exactly one indicator otherwise; the page's list is
\* these in attribute order and total_ioc_count counts them.
AttributeMapsToIndicators ==
    app.fn = "_pull" =>
        /\ \A k \in 1..Len(app.made) :
            LET page == RestSearch(app.listing, k, PULL_PAGE_SIZE)
            IN  \A i \in 1..Len(page) :
                    app.made[k][i] =
                        IF ~Accepted(page[i], app.exclude_events) THEN <<>>
                        ELSE IF page[i].type = "domain|ip"
                             THEN NonEmpty(Split(page[i].value))
                             ELSE <<page[i].value>>
        /\ YieldedInOrder

\* C11, amended: the mapping above holds for every attribute whose
\* indicators are made without an exception.  An accepted attribute whose
\* first_seen is not an ISO date or whose value Indicator() rejects maps to
\* zero indicators, and a domain|ip attribute with a rejected component to
\* the indicators of the non-empty components before it.
AttributeMapsToIndicatorsUnlessRaised ==
    app.fn = "_pull" =>
        /\ \A k \in 1..Len(app.made) :
            LET page == RestSearch(app.listing, k, PULL_PAGE_SIZE)
            IN  \A i \in 1..Len(page) :
                    LET attr == page[i]
                        made == app.made[k][i]
                        parts == NonEmpty(Split(attr.value))
                    IN  IF ~Accepted(attr, app.exclude_events) THEN made = <<>>
                        ELSE IF ~CreationRaises(attr)
                             THEN made = (IF attr.type = "domain|ip" THEN parts
                                          ELSE <<attr.value>>)
                        ELSE IF attr.type = "domain|ip" /\ ~FromIsoFormatRaises(attr)
                             THEN IsPrefix(made, parts) /\ Len(made) < Len(parts)
                                  /\ \A j \in 1..Len(made) : ~Rejected(made[j])
                                  /\ Rejected(parts[Len(made) + 1])
                        ELSE made = <<>>
        /\ YieldedInOrder

\* Two pages were mapped: the first holds a domain|ip attribute that gave two
\* indicators, and an attribute with a rejected value gave none.
SplitAndRejectedMapped ==
    /\ app.fn = "_pull"
    /\ Len(app.made) = 2
    /\ app.total_ioc_count >= 3
    /\ \E i \in 1..Len(app.made[1]) :
           /\ app.listing[i].type = "domain|ip"
           /\ Len(app.made[1][i]) = 2
    /\ \E i \in 1..Len(app.listing) :
           /\ Accepted(app.listing[i], app.exclude_events)
           /\ CreationRaises(app.listing[i])

(***************************************************************************)
(* _create_tags applied to the tag lists of the attributes of a pull       *)
(***************************************************************************)
\* Tags of one attribute at most.
MaxTags == 2

\* Tag names are strings, kept as sequences of tokens so that the blanks
\* around a name can be told apart from it.
RECURSIVE LStrip(_)
LStrip(name) ==
    IF name # <<>> /\ Head(name) = " " THEN LStrip(Tail(name)) ELSE name

RECURSIVE RStrip(_)
RStrip(name) ==
    IF name # <<>> /\ name[Len(name)] = " " THEN RStrip(SubSeq(name, 1, Len(name) - 1))
    ELSE name

\* str.strip()
Strip(name) == RStrip(LStrip(name))

\* The tag dictionaries of an attribute: tags of the event or attribute,
\* and the attribute's category as _pull appends it.
TagDicts ==
    { [name |-> <<"a">>, type |-> "tag"],
      [name |-> <<" ", "a", " ">>, type |-> "tag"],
      [name |-> <<"a">>, type |-> "misp_category"],
      [name |-> <<"long">>, type |-> "tag"] }

\* Creating a tag of this name raises ValueError.
RaisesValueError(tag_name) == \E i \in 1..Len(tag_name) : tag_name[i] = "long"

TagNameUnprefixed(tag) == Strip(tag.name)
TagName(tag) ==
    IF tag.type = "misp_category" THEN <<"MISPCATEGORY-">> \o Strip(tag.name)
    ELSE Strip(tag.name)

\* _create_tags over the tags from the one numbered i on.  `existing` holds
\* the names utils.exists knows, `site` tells where ValueError comes from:
\* TagIn(...), before create_tag is called, or create_tag itself.  `calls`
\* lists the create_tag calls: the name, and whether the call raised.
RECURSIVE CreateTagsFrom(_, _, _, _)
CreateTagsFrom(tags, i, existing, site) ==
    IF i > Len(tags)
    THEN [tag_names |-> <<>>, skipped_tags |-> <<>>, existing |-> existing, calls |-> <<>>]
    ELSE LET tag_name == TagName(tags[i])
         IN  IF tag_name \in existing
             THEN LET rest == CreateTagsFrom(tags, i + 1, existing, site)
                  IN  [rest EXCEPT !.tag_names = <<tag_name>> \o @]
             ELSE IF RaisesValueError(tag_name)
             THEN LET rest == CreateTagsFrom(tags, i + 1, existing, site)
                  IN  [rest EXCEPT
                          !.skipped_tags = <<tag_name>> \o @,
                          !.calls = (IF site = "create_tag"
                                     THEN <<[name |-> tag_name, raised |-> TRUE]>>
                                     ELSE <<>>) \o @]
             ELSE LET rest == CreateTagsFrom(tags, i + 1, existing \cup {tag_name}, site)
                  IN  [rest EXCEPT
                          !.tag_names = <<tag_name>> \o @,
                          !.calls = <<[name |-> tag_name, raised |-> FALSE]>> \o @]

CreateTags(tags, enable_tagging, existing, site) ==
    IF enable_tagging # "yes"
    THEN [tag_names |-> <<>>, skipped_tags |-> <<>>, existing |-> existing, calls |-> <<>>]
    ELSE CreateTagsFrom(tags, 1, existing, site)

\* A pull over two attributes: their tag lists, the tags the host knows.
InitCreateTags ==
    /\ IdleHelper
    /\ IdleMisp
    /\ he = NoHE
    /\ app \in [fn : {"_create_tags"},
                enable_tagging : {"yes", "no"},
                site : {"TagIn", "create_tag"},
                existing : SUBSET {<<"a">>},
                tag_lists : {<<l1, l2>> : l1, l2 \in SeqsUpTo(TagDicts, MaxTags)},
                results : {<<>>},
                calls : {<<>>}]

\* _create_tags for the next attribute of the pull.
CreateTagsApply ==
    /\ app.fn = "_create_tags"
    /\ Len(app.results) < Len(app.tag_lists)
    /\ LET tags == app.tag_lists[Len(app.results) + 1]
           done == CreateTags(tags, app.enable_tagging, app.existing, app.site)
       IN  app' = [app EXCEPT
                       !.existing = done.existing,
                       !.results = Append(@, [tag_names |-> done.tag_names,
                                              skipped_tags |-> done.skipped_tags,
                                              before |-> app.existing]),
                       !.calls = @ \o done.calls]
    /\ UNCHANGED he
    /\ UNCHANGED varsHelper
    /\ UNCHANGED varsMisp

NextCreateTags == CreateTagsApply

SpecCreateTags == InitCreateTags /\ [][NextCreateTags]_vars

Elements(q) == {q[i] : i \in 1..Len(q)}

\* What both versions of C13 share: no tag is created that exists already
\* or was created before; each tag gives its name, with the prefix
\* MISPCATEGORY- for a category, in one of the two lists; a name whose
\* creation raises ValueError is in the skipped list and not in the tag
\* list; without enable_tagging = "yes" nothing is created and both lists
\* are empty.
TagsCreatedOrSkipped ==
    /\ \A i \in 1..Len(app.calls) :
           /\ app.calls[i].name \notin app.results[1].before
           /\ \A j \in 1..(i - 1) :
                  app.calls[j].name = app.calls[i].name => app.calls[j].raised
    /\ \A k \in 1..Len(app.results) :
           LET tags == app.tag_lists[k]
               result == app.results[k]
               name(tag) == IF tag.type = "misp_category"
                            THEN <<"MISPCATEGORY-">> \o Strip(tag.name)
                            ELSE Strip(tag.name)
           IN  IF app.enable_tagging # "yes"
               THEN result.tag_names = <<>> /\ result.skipped_tags = <<>> /\ app.calls = <<>>
               ELSE /\ Len(result.tag_names) + Len(result.skipped_tags) = Len(tags)
                    /\ \A i \in 1..Len(tags) :
                           IF RaisesValueError(name(tags[i]))
                           THEN /\ name(tags[i]) \in Elements(result.skipped_tags)
                                /\ name(tags[i]) \notin Elements(result.tag_names)
                           ELSE /\ name(tags[i]) \in Elements(result.tag_names)
                                /\ name(tags[i]) \notin Elements(result.skipped_tags)

IdLists == {<<>>, <<"1">>, <<"1", "2">>}

InitRetractAttributes ==
    /\ IdleHelper
    /\ IdleMisp
    /\ he = NoHE
    /\ app \in [fn : {"_retract_attributes"},
                attribute_ids : [EventIds -> IdLists],
                outcome : [EventIds -> DeleteOutcomes],
                returned : {FALSE},
                requests : {<<>>},
                raised : {FALSE}]

\* _retract_attributes(attribute_ids, base_url, api_key).
RetractAttributesApply ==
    /\ app.fn = "_retract_attributes"
    /\ ~app.returned
    /\ LET done == RetractAttributes(app.attribute_ids, app.outcome)
       IN  app' = [app EXCEPT !.returned = TRUE,
                              !.requests = done.requests,
                              !.raised = done.raised]
    /\ UNCHANGED he
    /\ UNCHANGED varsHelper
    /\ UNCHANGED varsMisp

NextRetractAttributes == RetractAttributesApply

SpecRetractAttributes == InitRetractAttributes /\ [][NextRetractAttributes]_vars

\* The deleteSelected requests sent for an event.
RequestsFor(event_id) ==
    {i \in 1..Len(app.requests) : app.requests[i].event_id = event_id}

\* C18: _retract_attributes sends exactly one deleteSelected request, with
\* the ids of the event, for each event whose list of attribute ids is not
\* empty and none for an event with an empty list, whatever the requests
\* of the other events come to, and it never raises.
OneDeletePerNonEmptyEvent ==
    app.fn = "_retract_attributes" /\ app.returned =>
        /\ ~app.raised
        /\ \A e \in EventIds :
               IF app.attribute_ids[e] = <<>> THEN RequestsFor(e) = {}
               ELSE /\ Cardinality(RequestsFor(e)) = 1
                    /\ \A i \in RequestsFor(e) : app.requests[i].id = app.attribute_ids[e]

\* The requests of the first two events failed, one with
\* MISPPluginException and one with another exception, and the request of
\* the third event was sent.
DeleteSentAfterFailures ==
    /\ app.fn = "_retract_attributes"
    /\ app.returned
    /\ \A i \in 1..Len(EventOrder) : app.attribute_ids[EventOrder[i]] # <<>>
    /\ app.outcome[EventOrder[1]] = MISPPluginException
    /\ app.outcome[EventOrder[2]] = "Exception"
    /\ Len(app.requests) = 3
    /\ app.requests[3].event_id = EventOrder[3]

(***************************************************************************)
(* Properties of get_modified_indicators (SpecMisp)                        *)
(***************************************************************************)
\* The values of the accepted attributes among a set of attributes: the
\* event is not excluded, and the type is domain|ip, whose value is split
\* on "|", or another of ATTRIBUTE_TYPES.
AcceptedValues(attrs) ==
    UNION {IF a.info = configuration.event_name \/ a.event_id = configuration.event_name
           THEN {}
           ELSE IF a.type = "domain|ip"
                THEN {Split(a.value)[i] : i \in 1..Len(Split(a.value))}
           ELSE IF a.type \in ATTRIBUTE_TYPES THEN {a.value}
           ELSE {} : a \in attrs}

\* get_modified_indicators has just yielded the result of a batch.
GmiYielded == gen.name = "gmi" /\ gen.pc = "batch" /\ gen.yielded.flag = "False"

\* C19: for each source batch get_modified_indicators yields the source
\* values that occur in no accepted attribute of the pages scanned, a
\* subset of the values of the batch; it is also what scanning every page
\* gives, so stopping when no value is left changes nothing; and the
\* pages of every batch are asked for from page 1 on.
YieldsUnmatchedOfBatch ==
    /\ GmiYielded =>
           /\ loop.op = "gmi" /\ loop.ended = "normal"
           /\ \E r \in runs : r.at = calls
           /\ \A r \in runs :
                  r.at = calls =>
                      /\ gen.yielded.values = r.output
                      /\ r.output = r.input \ AcceptedValues(loop.seen)
                      /\ r.output \subseteq r.input
                      /\ LET every == Select(misp_attrs, loop.sent[1])
                         IN  r.output = r.input \ AcceptedValues({every[i] : i \in 1..Len(every)})
    /\ loop.op = "gmi" /\ loop.sent # <<>> =>
           /\ loop.sent[1].page = 1
           /\ NextPageAsked
    /\ gen.name = "gmi" /\ gen.pc = "fetch" /\ loop.sent = <<>> => gen.body.page = 1

\* The second batch of a call was yielded after two pages: one of its
\* values was found as a part of a domain|ip pair, and the other was kept
\* although an attribute of a type that is not accepted holds it.
SecondBatchScannedTwoPages ==
    /\ GmiYielded
    /\ Len(loop.sent) = 2
    /\ \E r1, r2 \in runs :
           /\ r1.at < r2.at
           /\ r2.at = calls
           /\ r2.output # {}
           /\ r2.output # r2.input
           /\ \E a \in loop.seen : a.type = "domain|ip" /\ a.value \notin r2.input
           /\ \E a \in loop.seen : a.value \in r2.output

(***************************************************************************)
(* Properties of retraction (SpecMisp)                                     *)
(***************************************************************************)
\* retraction_interval is a positive integer.
PositiveInterval(retraction_interval) ==
    retraction_interval.type = "int" /\ retraction_interval.val > 0

\* The operation that ran last is get_modified_indicators or
\* retract_indicators: pull and push start a loop of their own at once.
RetractionRanLast == calls > 0 /\ loop.op \in {"-", "gmi", "retract"}

\* C14: when retraction_interval is missing or not a positive integer,
\* retract_indicators and get_modified_indicators skip the retraction: they
\* send no request and delete nothing, however far the generator is
\* iterated, and raise no exception.
RetractionSkippedWithoutInterval ==
    ~PositiveInterval(configuration.retraction_interval) /\ RetractionRanLast =>
        /\ gen.exc = "-"
        /\ gen.pc \notin {"batch", "fetch"}
        /\ loop.sent = <<>>
        /\ loop.deletes = <<>>

\* C15: retract_indicators raises MISPPluginException, and sends no
\* restSearch or deleteSelected request, whenever no event id was obtained
\* for the events of the sharing configurations, also when every lookup
\* fails or finds no event; an event that was not resolved is never a null
\* entry of the eventid filter.
NoEventIdRaisesPluginException ==
    /\ (/\ loop.op = "-"
        /\ loop.looked # <<>>
        /\ \A i \in 1..Len(loop.looked) : loop.looked[i] = "None")
       => gen.exc = MISPPluginException /\ loop.sent = <<>> /\ loop.deletes = <<>>
    /\ loop.op = "retract" =>
           \A i \in 1..Len(loop.sent) :
               \A j \in 1..Len(loop.sent[i].eventid) : loop.sent[i].eventid[j] # "None"

\* C16: every attribute id sent to deleteSelected/{event_id} was returned
\* by a restSearch of the current batch, with that event_id and with a value
\* of the batch; an attribute whose value is not in the batch is never sent,
\* nor an id that only an earlier batch collected.
DeletesOnlyMatchedOfBatch ==
    [][gen.name = "retract" /\ gen.pc = "fetch" =>
           \A d \in DeleteRequested' :
               \E a \in loop'.seen :
                   /\ a.id = d.id
                   /\ a.event_id = d.event_id
                   /\ a.value \in gen.source]_vars

\* A batch ended with a deleteSelected request after two pages, one of them
\* holding an attribute that was not sent, and the server deleted an
\* attribute it had returned.
MatchedDeletedOthersKept ==
    /\ loop.op = "retract"
    /\ loop.ended = "normal"
    /\ Len(loop.lens) = 2
    /\ DeleteRequested # {}
    /\ \E a \in loop.seen : \A d \in DeleteRequested : d.id # a.id
    /\ \E a \in loop.seen : \A i \in 1..Len(misp_attrs) : misp_attrs[i] # a

\* C17: in every batch of retract_indicators the deleteSelected requests
\* are sent only after the restSearch pagination of the batch reached its
\* last page, ValidationResult(success=True) is yielded once, when the
\* batch is done and its deletes are sent, and after a restSearch that
\* fails no delete request is sent for the batch.
DeletesAfterLastPage ==
    loop.op = "retract" =>
        /\ loop.deletes # <<>> =>
               /\ loop.ended = "normal"
               /\ Len(loop.lens) = Len(loop.sent)
               /\ Last(loop.lens) < Last(loop.sent).limit
        /\ loop.ended = "error" => loop.deletes = <<>>
        /\ gen.name = "retract" =>
               (gen.yielded.flag = "success" <=> loop.ended = "normal")
        /\ gen.name = "retract" /\ gen.pc = "fetch" => loop.ended = "running"

\* A batch whose first page is full ended: the deletes were sent after the
\* second page, and the result was yielded.
DeletedAfterSecondPage ==
    /\ loop.op = "retract"
    /\ loop.ended = "normal"
    /\ Len(loop.lens) = 2
    /\ loop.lens[1] = loop.sent[1].limit
    /\ \E i \in 1..Len(loop.deletes) :
           \E a \in loop.seen : a.id = loop.deletes[i].id[1] /\ a.value \in SourceValues
    /\ gen.yielded.flag = "success"

(***************************************************************************)
(* Properties of push (SpecPush)                                           *)
(***************************************************************************)
\* The values of the attributes of a request.
Values(request) == [j \in 1..Len(request.Attribute) |-> request.Attribute[j].value]

\* The number of attributes of the requests whose flag is ok.
RECURSIVE Counted(_, _)
Counted(requests, ok) ==
    IF requests = <<>> THEN 0
    ELSE (IF Head(requests).flag = ok THEN Len(Head(requests).Attribute) ELSE 0)
         + Counted(Tail(requests), ok)

TagsToAttach ==
    {DEFAULT_IOC_TAG} \cup
    {label \in {SHARING_TAG_CONSTANT \o " | " \o app.plugin_name} :
        app.plugin_name # "None" /\ Len(label) <= 255}

\* The tag was found or created by one of the first n requests.
TagReady(tag, n) ==
    \E i \in 1..n : /\ app.result.requests[i].url \in {"tags/search", "tags/add"}
                     /\ app.result.requests[i].tag = tag
                     /\ app.result.requests[i].flag

\* C23: an events/add or events/edit request is sent only after every
\* default tag was found or created; when a default tag is neither found
\* nor created push raises MISPPluginException and sends no attribute.
TagsReadyBeforeEvents ==
    PushCalled =>
        /\ \A i \in 1..Len(app.result.requests) :
               app.result.requests[i].url \in {"events/add", "events/edit"} =>
                   \A tag \in TagsToAttach : TagReady(tag, i - 1)
        /\ (\E tag \in TagsToAttach : ~TagReady(tag, Len(app.result.requests))) =>
               /\ app.result.raised = MISPPluginException
               /\ ~app.result.returned
               /\ EventRequests(app.result.requests) = <<>>

\* The IoC tag was found, the source label tag was created, and the
\* indicators were sent after that.
SentAfterTagCreated ==
    /\ PushCalled
    /\ Cardinality(TagsToAttach) = 2
    /\ Len(app.result.requests) >= 4
    /\ app.result.requests[1].url = "tags/search" /\ app.result.requests[1].flag
    /\ app.result.requests[3].url = "tags/add" /\ app.result.requests[3].flag
    /\ app.result.requests[4].url \in {"events/add", "events/edit"}

\* C24: push with an action value other than "event" raises
\* MISPPluginException and sends no request to MISP.
OtherActionRaisesBeforeRequests ==
    PushCalled /\ app.action_value # "event" =>
        /\ app.result.raised = MISPPluginException
        /\ ~app.result.returned
        /\ app.result.requests = <<>>
        /\ ~app.result.looked

\* push was called with another action value for indicators whose tags and
\* event were there to be found.
OtherActionRejected ==
    /\ PushCalled
    /\ app.action_value = "other"
    /\ app.indicators # <<>>
    /\ \A i \in 1..Len(app.tag_outcomes) : app.tag_outcomes[i] = "found"
    /\ app.result.raised = MISPPluginException

====
